---- MODULE Spec2Model ----
(***************************************************************************)
(* A model of the feed-acquisition and aggregation core of find-my-train:  *)
(* the feed fetcher (TTL cache, retry with backoff, cancellation, batch    *)
(* fetch) and the subway service that merges, maps and de-duplicates the   *)
(* decoded feeds.                                                          *)
(*                                                                         *)
(* Strings whose characters the code inspects (route ids, stop ids, trip   *)
(* ids) are sequences of one-character strings; a JavaScript Map is a      *)
(* sequence of [key, value] records in insertion order.                    *)
(***************************************************************************)
EXTENDS Integers, Sequences, FiniteSets, TLC

VARIABLES
    now,        \* Date.now(), in ms
    aborted,    \* signal.aborted of the caller's AbortSignal
    cache,      \* feedFetcher.ts: const cache = new Map<FeedId, CacheEntry>()
    batch,      \* the fetchFeeds calls in progress, one record per slot
    fetchOptions, \* MTASubwayService.fetchOptions, handed to every fetchFeeds call
    returned,   \* what the step just taken resolved its caller's promise with
    lastMode,   \* MTASubwayService._lastMode
    svc,        \* per batch slot, the service method awaiting that batch
    refreshDue, \* history: per endpoint, the cache was cleared of it and no
                \* fetchFeed of it has started since
    subwayEntrances, \* subwayEntrances.ts: the module's variables, its loader and
                \* the calls of ensureEntrancesLoaded
    trainStore, \* stores/trainStore.ts: the state of useTrainStore
    arrivalStore, \* stores/arrivalStore.ts: the state of useArrivalStore
    liveTrains, \* hooks/useLiveTrains.ts: the mounted hook, its interval and the
                \* refresh calls that are awaiting
    stationArrivals \* hooks/useStationArrivals.ts: likewise

\* The stores and the hooks that write them
hookVars == <<trainStore, arrivalStore, liveTrains, stationArrivals>>

vars == <<now, aborted, cache, batch, fetchOptions, returned, lastMode, svc, refreshDue, subwayEntrances, hookVars>>

\* ---------------------------------------------------------------- bounds

MaxTime == 10000        \* the clock stops advancing here
TickMs == 5000          \* granularity of the clock
MaxInFlight == 2        \* fetchFeed calls that may be pending at once
MaxBatches == 2         \* fetchFeeds calls that may overlap
MaxServiceCalls == 1    \* service methods that may be awaiting their batch at once
MaxRoutes == 3          \* lines in a routes argument handed to the registry
MaxStopTimes == 2       \* stop time updates of the trip update handed to mapTripUpdates
MaxPredictions == 3     \* predictions handed to filterArrivalsForStation
MaxAlertEntities == 2   \* entities of the feed handed to mapAlerts
MaxFeedEntities == 3    \* entities of the feed handed to mapVehiclePositions
MaxTranslations == 2    \* translations of a translated string handed to the extraction
MaxEntranceCallers == 3 \* components that call ensureEntrancesLoaded
MaxHookTime == 30000    \* the clock of the hooks stops advancing here
HookTickMs == 15000     \* granularity of the clock of the hooks
MaxRefreshes == 2       \* refresh calls a hook starts
MaxEntranceCalls == 2   \* calls of ensureEntrancesLoaded by one component

\* ------------------------------------------------------ program constants

DEFAULT_CACHE_TTL_MS == 10000
RETRY_DELAY_MS == 2000
MAX_RETRIES == 1

\* types.ts: enum FeedId, in declaration order (Object.values(FeedId))
ALL_FEEDS == <<"Default", "ACE", "BDFM", "G", "JZ", "L", "NQRW", "SI">>

FeedId == {ALL_FEEDS[i] : i \in 1..Len(ALL_FEEDS)}

\* ------------------------------------------------------------ JS helpers

Range(s) == {s[i] : i \in 1..Len(s)}

\* Map.prototype.has / get / set on an insertion-ordered Map
MapHas(m, k) == \E i \in 1..Len(m) : m[i].key = k

MapGet(m, k) == m[CHOOSE i \in 1..Len(m) : m[i].key = k].value

MapSet(m, k, v) ==
    IF MapHas(m, k)
    THEN [i \in 1..Len(m) |-> IF m[i].key = k THEN [key |-> k, value |-> v] ELSE m[i]]
    ELSE Append(m, [key |-> k, value |-> v])

MapValues(m) == [i \in 1..Len(m) |-> m[i].value]

\* String.prototype.toUpperCase, character by character
LowerChars == <<"a", "b", "c", "d", "e", "f", "g", "h", "i", "j", "k", "l", "m",
                "n", "o", "p", "q", "r", "s", "t", "u", "v", "w", "x", "y", "z">>

UpperChars == <<"A", "B", "C", "D", "E", "F", "G", "H", "I", "J", "K", "L", "M",
                "N", "O", "P", "Q", "R", "S", "T", "U", "V", "W", "X", "Y", "Z">>

UpperChar(c) ==
    IF \E i \in 1..Len(LowerChars) : LowerChars[i] = c
    THEN UpperChars[CHOOSE i \in 1..Len(LowerChars) : LowerChars[i] = c]
    ELSE c

toUpperCase(str) == [i \in 1..Len(str) |-> UpperChar(str[i])]

\* ---------------------------------------------------------- feed registry

\* feedRegistry: ROUTE_TO_FEED
ROUTE_TO_FEED ==
    << [route |-> <<"1">>, feed |-> "Default"], [route |-> <<"2">>, feed |-> "Default"],
       [route |-> <<"3">>, feed |-> "Default"], [route |-> <<"4">>, feed |-> "Default"],
       [route |-> <<"5">>, feed |-> "Default"], [route |-> <<"6">>, feed |-> "Default"],
       [route |-> <<"6", "X">>, feed |-> "Default"], [route |-> <<"7">>, feed |-> "Default"],
       [route |-> <<"7", "X">>, feed |-> "Default"], [route |-> <<"S">>, feed |-> "Default"],
       [route |-> <<"G", "S">>, feed |-> "Default"],
       [route |-> <<"A">>, feed |-> "ACE"], [route |-> <<"C">>, feed |-> "ACE"],
       [route |-> <<"E">>, feed |-> "ACE"], [route |-> <<"H">>, feed |-> "ACE"],
       [route |-> <<"B">>, feed |-> "BDFM"], [route |-> <<"D">>, feed |-> "BDFM"],
       [route |-> <<"F">>, feed |-> "BDFM"], [route |-> <<"M">>, feed |-> "BDFM"],
       [route |-> <<"G">>, feed |-> "G"],
       [route |-> <<"J">>, feed |-> "JZ"], [route |-> <<"Z">>, feed |-> "JZ"],
       [route |-> <<"L">>, feed |-> "L"],
       [route |-> <<"N">>, feed |-> "NQRW"], [route |-> <<"Q">>, feed |-> "NQRW"],
       [route |-> <<"R">>, feed |-> "NQRW"], [route |-> <<"W">>, feed |-> "NQRW"],
       [route |-> <<"S", "I">>, feed |-> "SI"], [route |-> <<"F", "S">>, feed |-> "SI"] >>

\* Mutant of getFeedForRoute: the route is looked up as it was written
getFeedForRouteCaseSensitive(route) ==
    IF \E i \in 1..Len(ROUTE_TO_FEED) : ROUTE_TO_FEED[i].route = route
    THEN ROUTE_TO_FEED[CHOOSE i \in 1..Len(ROUTE_TO_FEED) : ROUTE_TO_FEED[i].route = route].feed
    ELSE "Default"

\* feedRegistry: getFeedForRoute
getFeedForRoute(route) ==
    LET key == toUpperCase(route)
    IN  IF \E i \in 1..Len(ROUTE_TO_FEED) : ROUTE_TO_FEED[i].route = key
        THEN ROUTE_TO_FEED[CHOOSE i \in 1..Len(ROUTE_TO_FEED) : ROUTE_TO_FEED[i].route = key].feed
        ELSE "Default"

\* new Set<FeedId>() filled in route order, then spread: first occurrences in order
RECURSIVE UniqueFeeds(_, _)
UniqueFeeds(routes, acc) ==
    IF routes = <<>> THEN acc
    ELSE LET f == getFeedForRoute(Head(routes))
         IN  UniqueFeeds(Tail(routes), IF f \in Range(acc) THEN acc ELSE Append(acc, f))

\* An optional routes argument: routes?: string[]
Undefined == [present |-> FALSE, list |-> <<>>]

Routes(list) == [present |-> TRUE, list |-> list]

\* feedRegistry: getFeedsForRoutes
getFeedsForRoutes(routes) ==
    IF ~routes.present \/ Len(routes.list) = 0 THEN ALL_FEEDS
    ELSE UniqueFeeds(routes.list, <<>>)

\* -------------------------------------------------------- subway entrances

\* subwayEntrances.ts, lines 15-17: a Map variable that is still null
NoMap == [absent |-> "Map"]

\* new Map() with the given entries, in insertion order
MapOf(entries) == [entries |-> entries]

EntranceCallers == 1..MaxEntranceCallers

\* subwayEntrances.ts, lines 15-19: the module as loaded, nothing called yet.
\*   load      where loadEntrances stands: "none", "fetch" (awaiting fetch),
\*             "json" (awaiting resp.json()), "done", "caught" (ended in
\*             the catch block)
\*   calls     per component, its ensureEntrancesLoaded promise
\*   called    per component, the calls it has made
\*   requests  fetch(SODA_URL) calls issued so far
EntrancesUnloaded ==
    [complexEntrances |-> NoMap, stopToComplex |-> NoMap, fetchPromise |-> "null",
     load |-> "none",
     calls |-> [c \in EntranceCallers |-> "idle"],
     called |-> [c \in EntranceCallers |-> 0],
     requests |-> 0]

\* ------------------------------------------------------------ feed fetcher

\* cache.get(feedId) === undefined
NoMessage == [feed |-> "none", ts |-> -1]

NoEntry == [message |-> NoMessage, fetchedAt |-> -1]

\* The decoded FeedMessage an endpoint answers a request with: the endpoint's
\* content as of the moment the request was issued
MessageOf(feedId, issuedAt) == [feed |-> feedId, ts |-> issuedAt]

\* FetchFeedOptions, with the defaults of fetchFeed applied
DefaultOptions == [useSignal |-> FALSE, cacheTtlMs |-> DEFAULT_CACHE_TTL_MS, noRetry |-> FALSE]

\* The options the service is constructed with: the defaults, each option changed
\* alone, and all of them changed together
OptionChoices ==
    { DefaultOptions,
      [DefaultOptions EXCEPT !.cacheTtlMs = 0],
      [DefaultOptions EXCEPT !.noRetry = TRUE],
      [DefaultOptions EXCEPT !.useSignal = TRUE],
      [useSignal |-> TRUE, cacheTtlMs |-> 0, noRetry |-> TRUE] }

\* The endpoint lists the fetcher is called with: duplicate-free, as the registry
\* returns them
RouteLists ==
    { Routes(<< <<"A">> >>),
      Routes(<< <<"a">>, <<"C">> >>),
      Routes(<< <<"c">>, <<"7">> >>) }

FeedLists == {getFeedsForRoutes(r) : r \in RouteLists}

Batches == 1..MaxBatches

IdleBatch == [state |-> "idle", feedIds |-> <<>>, opts |-> DefaultOptions, calls |-> <<>>]

NoReturn == [op |-> "none"]

\* A batch slot that no service method is awaiting
NoService == [op |-> "none", routes |-> Undefined, stationId |-> <<>>]

\* Mutant of CacheFresh: an entry exactly cacheTtlMs old still counts as fresh
CacheFreshInclusive(entry, ttl, t) ==
    ttl > 0 /\ entry # [message |-> [feed |-> "none", ts |-> -1], fetchedAt |-> -1]
            /\ t - entry.fetchedAt <= ttl

\* fetchFeed, lines 120-126: the cache check
CacheFresh(entry, ttl, t) ==
    ttl > 0 /\ entry # NoEntry /\ t - entry.fetchedAt < ttl

\* Mutant of CachePut: the entry is stamped with the time of the request
CachePutStampedAtRequest(c, feedId, message, t) ==
    [c EXCEPT ![feedId] = [message |-> message, fetchedAt |-> message.ts]]

\* fetchFeed, line 133: cache.set(feedId, { message, fetchedAt: Date.now() })
CachePut(c, feedId, message, t) ==
    [c EXCEPT ![feedId] = [message |-> message, fetchedAt |-> t]]

\* Mutant of BackoffDelay: the delay is scaled by the zero-based attempt
BackoffDelayZeroBased(attempt) == RETRY_DELAY_MS * attempt

\* fetchWithRetry, line 86: RETRY_DELAY_MS * (attempt + 1)
BackoffDelay(attempt) == RETRY_DELAY_MS * (attempt + 1)

\* fetchFeed, line 128: retries of the call (a noRetry call runs fetchAndDecode once)
RetriesOf(opts) == IF opts.noRetry THEN 0 ELSE MAX_RETRIES

\* One fetchFeed call up to its first await: a cache hit fulfils at once, a miss
\* invokes fetchAndDecode (attempt 0).
\*   issuedAt   when the attempt in flight called fetch
\*   cancelled  the signal was already aborted when the attempt called fetch
\*   netCalls   fetchAndDecode invocations of this call so far
\*   failedAt   when the attempt before the backoff failed
\* issuedAt and cancelled are kept only while the attempt is in flight.
StartFetchFeed(feedId, opts, c, t, sig) ==
    IF CacheFresh(c[feedId], opts.cacheTtlMs, t)
    THEN [pc |-> "fulfilled", attempt |-> 0, wakeAt |-> 0, issuedAt |-> 0,
          cancelled |-> FALSE, value |-> c[feedId].message, reason |-> "none",
          netCalls |-> 0, failedAt |-> 0]
    ELSE [pc |-> "net", attempt |-> 0, wakeAt |-> 0, issuedAt |-> t,
          cancelled |-> (opts.useSignal /\ sig), value |-> NoMessage, reason |-> "none",
          netCalls |-> 1, failedAt |-> 0]

InFlight ==
    Cardinality({<<b, i>> \in Batches \X (1..Len(ALL_FEEDS)) :
                    /\ batch[b].state = "running"
                    /\ i <= Len(batch[b].calls)})

\* fetchFeeds, lines 150-155: feedIds.map(async ...) runs every fetchFeed up to
\* its first await
FetchFeedsStart(b, feedIds, opts) ==
    /\ batch[b].state = "idle"
    /\ \A lower \in 1..(b - 1) : batch[lower].state = "running"
    /\ InFlight + Len(feedIds) <= MaxInFlight
    /\ batch' = [batch EXCEPT ![b] =
            [state |-> "running", feedIds |-> feedIds, opts |-> opts,
             calls |-> [i \in 1..Len(feedIds) |->
                          StartFetchFeed(feedIds[i], opts, cache, now, aborted)]]]
    /\ returned' = NoReturn
    /\ refreshDue' = [f \in FeedId |-> refreshDue[f] /\ f \notin Range(feedIds)]
    /\ UNCHANGED <<now, aborted, cache, fetchOptions, lastMode, svc, subwayEntrances, hookVars>>

Pending(b, i) ==
    /\ batch[b].state = "running"
    /\ i \in 1..Len(batch[b].calls)
    /\ batch[b].calls[i].pc = "net"

\* fetchAndDecode returns; fetchFeed (lines 132-135) stores and returns the message
NetSuccess(b, i) ==
    /\ Pending(b, i)
    /\ ~batch[b].calls[i].cancelled
    /\ LET m == MessageOf(batch[b].feedIds[i], batch[b].calls[i].issuedAt)
       IN  /\ cache' = CachePut(cache, batch[b].feedIds[i], m, now)
           /\ batch' = [batch EXCEPT ![b].calls[i] =
                            [@ EXCEPT !.pc = "fulfilled", !.value = m,
                                      !.issuedAt = 0, !.cancelled = FALSE]]
    /\ returned' = NoReturn
    /\ UNCHANGED <<now, aborted, fetchOptions, lastMode, svc, refreshDue, subwayEntrances, hookVars>>

\* fetchWithRetry, lines 78-91 (and the bare fetchAndDecode of a noRetry call):
\* what the call does with an error of the given kind
AfterFailure(call, opts, kind, t, sig) ==
    IF (opts.useSignal /\ sig) \/ call.attempt >= RetriesOf(opts)
    THEN [call EXCEPT !.pc = "rejected", !.reason = kind,
                      !.issuedAt = 0, !.cancelled = FALSE]
    ELSE [call EXCEPT !.pc = "backoff", !.failedAt = t,
                      !.wakeAt = t + BackoffDelay(call.attempt),
                      !.issuedAt = 0, !.cancelled = FALSE]

\* fetchAndDecode throws: a non-2xx status or network failure ("transport"),
\* or FeedMessage.decode rejects the payload ("decode")
NetFail(b, i, kind) ==
    /\ Pending(b, i)
    /\ ~batch[b].calls[i].cancelled
    /\ batch' = [batch EXCEPT ![b].calls[i] =
            AfterFailure(@, batch[b].opts, kind, now, aborted)]
    /\ returned' = NoReturn
    /\ UNCHANGED <<now, aborted, cache, fetchOptions, lastMode, svc, refreshDue, subwayEntrances, hookVars>>

\* fetch rejects with the AbortError of the caller's signal
NetAbort(b, i) ==
    /\ Pending(b, i)
    /\ batch[b].opts.useSignal
    /\ aborted
    /\ batch' = [batch EXCEPT ![b].calls[i] =
            AfterFailure(@, batch[b].opts, "abort", now, aborted)]
    /\ returned' = NoReturn
    /\ UNCHANGED <<now, aborted, cache, fetchOptions, lastMode, svc, refreshDue, subwayEntrances, hookVars>>

\* fetchWithRetry, lines 86 and 75-77: the backoff timer fires and the next
\* attempt calls fetchAndDecode
BackoffWake(b, i) ==
    /\ batch[b].state = "running"
    /\ i \in 1..Len(batch[b].calls)
    /\ batch[b].calls[i].pc = "backoff"
    /\ now >= batch[b].calls[i].wakeAt
    /\ batch' = [batch EXCEPT ![b].calls[i] =
            [@ EXCEPT !.pc = "net", !.attempt = @ + 1, !.netCalls = @ + 1,
                      !.wakeAt = 0, !.failedAt = 0, !.issuedAt = now,
                      !.cancelled = (batch[b].opts.useSignal /\ aborted)]]
    /\ returned' = NoReturn
    /\ UNCHANGED <<now, aborted, cache, fetchOptions, lastMode, svc, refreshDue, subwayEntrances, hookVars>>

\* The array Promise.allSettled resolves with: one result object per call, in
\* call order.  ref is the identity of the result object.
SettledOf(feedIds, calls) ==
    [i \in 1..Len(calls) |->
        [ref |-> i, status |-> calls[i].pc, feedId |-> feedIds[i],
         message |-> calls[i].value, reason |-> calls[i].reason]]

\* Mutant of IndexOf: results are compared by content instead of by identity
IndexOfByContent(settled, result) ==
    CHOOSE i \in 1..Len(settled) :
        /\ settled[i].status = result.status /\ settled[i].reason = result.reason
        /\ \A j \in 1..(i - 1) :
              ~(settled[j].status = result.status /\ settled[j].reason = result.reason)

\* Array.prototype.indexOf: the first position holding the same object
IndexOf(settled, result) ==
    CHOOSE i \in 1..Len(settled) :
        /\ settled[i].ref = result.ref
        /\ \A j \in 1..(i - 1) : settled[j].ref # result.ref

\* fetchFeeds, lines 157-171: the loop over the settled results
RECURSIVE CollectSettled(_, _, _, _)
CollectSettled(feedIds, settled, k, acc) ==
    IF k > Len(settled) THEN acc
    ELSE LET result == settled[k]
         IN  IF result.status = "fulfilled"
             THEN CollectSettled(feedIds, settled, k + 1,
                     [acc EXCEPT !.results = MapSet(@, result.feedId, result.message)])
             ELSE LET idx == IndexOf(settled, result)
                  IN  CollectSettled(feedIds, settled, k + 1,
                         [acc EXCEPT !.errors = MapSet(@, feedIds[idx], result.reason)])

\* Mutant of fetchFeeds: the calls are awaited with Promise.all, which rejects as
\* soon as one of them rejects
fetchFeedsPromiseAll(feedIds, settled) ==
    IF \E k \in 1..Len(settled) : settled[k].status = "rejected"
    THEN [outcome |-> "rejected", results |-> <<>>, errors |-> <<>>]
    ELSE CollectSettled(feedIds, settled, 1,
            [outcome |-> "resolved", results |-> <<>>, errors |-> <<>>])

\* fetchFeeds, lines 143-174: what the batch resolves with once every call has
\* settled (Promise.allSettled never rejects)
fetchFeeds(feedIds, settled) ==
    CollectSettled(feedIds, settled, 1,
        [outcome |-> "resolved", results |-> <<>>, errors |-> <<>>])

AllSettled(b) ==
    \A i \in 1..Len(batch[b].calls) : batch[b].calls[i].pc \in {"fulfilled", "rejected"}

\* The continuation of fetchFeeds after await Promise.allSettled(...): the batch
\* resolves its caller's promise
FetchFeedsSettle(b) ==
    /\ batch[b].state = "running"
    /\ AllSettled(b)
    /\ LET r == fetchFeeds(batch[b].feedIds, SettledOf(batch[b].feedIds, batch[b].calls))
       IN  returned' = [op |-> "fetchFeeds", feedIds |-> batch[b].feedIds,
                        calls |-> batch[b].calls, outcome |-> r.outcome,
                        results |-> r.results, errors |-> r.errors]
    /\ batch' = [batch EXCEPT ![b] = IdleBatch]
    /\ UNCHANGED <<now, aborted, cache, fetchOptions, lastMode, svc, refreshDue, subwayEntrances, hookVars>>

\* The caller aborts its AbortController
Abort ==
    /\ fetchOptions.useSignal
    /\ ~aborted
    /\ aborted' = TRUE
    /\ returned' = NoReturn
    /\ UNCHANGED <<now, cache, batch, fetchOptions, lastMode, svc, refreshDue, subwayEntrances, hookVars>>

\* Time passes
Tick ==
    /\ now + TickMs <= MaxTime
    /\ now' = now + TickMs
    /\ returned' = NoReturn
    /\ UNCHANGED <<aborted, cache, batch, fetchOptions, lastMode, svc, refreshDue, subwayEntrances, hookVars>>

\* A fetchFeed call of the endpoint has started and not yet returned
FetchInFlight(feedId) ==
    \E b \in Batches :
        /\ batch[b].state = "running"
        /\ \E i \in 1..Len(batch[b].calls) :
              /\ batch[b].feedIds[i] = feedId
              /\ batch[b].calls[i].pc \notin {"fulfilled", "rejected"}

\* The endpoints a clearing of the cache bears on: those with an entry or with a
\* fetch in flight. For any other endpoint the next fetch finds no entry whether
\* or not the cache was cleared.
Clearable(feedId) == cache[feedId] # NoEntry \/ FetchInFlight(feedId)

\* feedFetcher.ts: clearFeedCache
clearFeedCache ==
    /\ \E f \in FeedId : Clearable(f)
    /\ cache' = [f \in FeedId |-> NoEntry]
    /\ refreshDue' = [f \in FeedId |-> refreshDue[f] \/ Clearable(f)]
    /\ returned' = NoReturn
    /\ UNCHANGED <<now, aborted, batch, fetchOptions, lastMode, svc, subwayEntrances, hookVars>>

\* feedFetcher.ts: invalidateFeed
invalidateFeed(feedId) ==
    /\ Clearable(feedId)
    /\ cache' = [cache EXCEPT ![feedId] = NoEntry]
    /\ refreshDue' = [refreshDue EXCEPT ![feedId] = TRUE]
    /\ returned' = NoReturn
    /\ UNCHANGED <<now, aborted, batch, fetchOptions, lastMode, svc, subwayEntrances, hookVars>>

\* -------------------------------------------------------- stores and hooks

\* A string the feed leaves out (null / undefined)
Null == <<"<null>">>

\* A number | null that is null
NullMs == [kind |-> "null", n |-> 0]

\* trainStore.ts, lines 16-20: the store as created
TrainStoreCreated ==
    [trains |-> <<>>, isLoading |-> FALSE, errorMessage |-> Null,
     lastUpdatedMs |-> NullMs, mode |-> "live"]

\* arrivalStore.ts, lines 18-21: the store as created; arrivals is a record
\* keyed by station id, kept as its entries in insertion order
ArrivalStoreCreated ==
    [arrivals |-> <<>>, isLoading |-> FALSE, errorMessage |-> Null,
     lastUpdatedMs |-> NullMs]

\* A refresh call of a hook, per batch slot of the fetchFeeds call it waits for.
\*   pc       "idle" (no call), "awaiting" (the service method is pending),
\*            "settled" (the service method's promise is settled and the
\*            continuation of refresh is queued)
\*   seq      history: the call's rank among the refresh calls started
\*   id       useStationArrivals: const id = stationRef.current
\*   outcome, value   what the service method's promise settled with
\*   fallback history: the service method took its synthetic fallback
NoRefresh ==
    [pc |-> "idle", seq |-> 0, id |-> Null, outcome |-> "none", value |-> <<>>,
     fallback |-> FALSE]

\* useLiveTrains before its effect has run.
\*   interval the time the interval fires next, -1 when there is none
\*   routes   routesRef.current
\*   started  history: refresh calls started so far
\*   stored   history: the refresh call whose setTrains wrote the store last
LiveTrainsUnmounted ==
    [isMounted |-> FALSE, interval |-> -1, routes |-> Undefined,
     refresh |-> [b \in Batches |-> NoRefresh], started |-> 0,
     stored |-> [seq |-> 0, fallback |-> FALSE]]

\* useStationArrivals with no station (stationId null, no effect).
\*   stationId the station of the effect that is in force, Null when none
\*   cleaned   history: the stations whose cleanup has run since their effect
StationArrivalsUnmounted ==
    [isMounted |-> FALSE, interval |-> -1, stationId |-> Null,
     refresh |-> [b \in Batches |-> NoRefresh], started |-> 0,
     cleaned |-> {}]

\* ------------------------------------------------------ fetcher, continued

Init ==
    /\ now = 0
    /\ aborted = FALSE
    /\ cache = [f \in FeedId |-> NoEntry]
    /\ batch = [b \in Batches |-> IdleBatch]
    /\ fetchOptions \in OptionChoices
    /\ returned = NoReturn
    /\ lastMode = "live"
    /\ svc = [b \in Batches |-> NoService]
    /\ refreshDue = [f \in FeedId |-> FALSE]
    /\ subwayEntrances = EntrancesUnloaded
    /\ trainStore = TrainStoreCreated
    /\ arrivalStore = ArrivalStoreCreated
    /\ liveTrains = LiveTrainsUnmounted
    /\ stationArrivals = StationArrivalsUnmounted

Next ==
    \/ \E b \in Batches, l \in FeedLists : FetchFeedsStart(b, l, fetchOptions)
    \/ \E b \in Batches, i \in 1..MaxInFlight : NetSuccess(b, i)
    \/ \E b \in Batches, i \in 1..MaxInFlight, k \in {"transport", "decode"} : NetFail(b, i, k)
    \/ \E b \in Batches, i \in 1..MaxInFlight : NetAbort(b, i)
    \/ \E b \in Batches, i \in 1..MaxInFlight : BackoffWake(b, i)
    \/ \E b \in Batches : FetchFeedsSettle(b)
    \/ Abort
    \/ Tick
    \/ clearFeedCache
    \/ \E f \in FeedId : invalidateFeed(f)

Spec == Init /\ [][Next]_vars

\* ------------------------------------------------------------ feed content

\* JavaScript truthiness of a string | null
Truthy(str) == str # Null /\ str # <<>>

\* A numeric field of the feed: a plain number, a Long wrapper, or absent
NumberV(n) == [kind |-> "number", n |-> n]

LongV(n) == [kind |-> "long", n |-> n]

NoNumber == [kind |-> "null", n |-> 0]

\* Absent payloads of a FeedEntity
NoVehicle == [absent |-> "vehicle"]

NoTripUpdate == [absent |-> "tripUpdate"]

NoAlert == [absent |-> "alert"]

NoEvent == [absent |-> "stopTimeEvent"]

\* transit_realtime.IFeedEntity
Entity(id, vehicle, tripUpdate, alert) ==
    [id |-> id, vehicle |-> vehicle, tripUpdate |-> tripUpdate, alert |-> alert]

\* transit_realtime.IVehiclePosition, with trip?.routeId and trip?.tripId flattened
Vehicle(routeId, tripId, stopId) == [routeId |-> routeId, tripId |-> tripId, stopId |-> stopId]

\* transit_realtime.ITripUpdate
TripUpdate(routeId, tripId, stopTimeUpdate) ==
    [routeId |-> routeId, tripId |-> tripId, stopTimeUpdate |-> stopTimeUpdate]

\* transit_realtime.TripUpdate.IStopTimeUpdate
StopTime(stopId, arrival, departure) ==
    [stopId |-> stopId, arrival |-> arrival, departure |-> departure]

\* transit_realtime.TripUpdate.IStopTimeEvent
Event(time, delay) == [time |-> time, delay |-> delay]

\* ------------------------------------------------------------ stop lookup

\* Coordinates are in units of 1e-7 degree, bearings in units of 1e-3 degree
CoordUnit == 10000000

BearingUnit == 1000

\* An excerpt of the bundled station table (id, lat, lng); the stations sit on
\* whole degrees
subwayStations ==
    << [id |-> <<"A", "1", "5">>, lat |-> 41 * CoordUnit, lng |-> (-74) * CoordUnit],
       [id |-> <<"A", "1", "6">>, lat |-> 42 * CoordUnit, lng |-> (-73) * CoordUnit],
       [id |-> <<"1", "2", "7">>, lat |-> 41 * CoordUnit, lng |-> (-73) * CoordUnit],
       [id |-> <<"R", "2", "0">>, lat |-> 40 * CoordUnit, lng |-> (-75) * CoordUnit],
       [id |-> <<"L", "0", "1">>, lat |-> 41 * CoordUnit, lng |-> (-76) * CoordUnit] >>

NoCoords == [found |-> FALSE, lat |-> 0, lng |-> 0]

\* stopLookup: getLookup / Map.get
LookupGet(id) ==
    IF \E i \in 1..Len(subwayStations) : subwayStations[i].id = id
    THEN LET st == subwayStations[CHOOSE i \in 1..Len(subwayStations) :
                        /\ subwayStations[i].id = id
                        /\ \A j \in (i + 1)..Len(subwayStations) : subwayStations[j].id # id]
         IN  [found |-> TRUE, lat |-> st.lat, lng |-> st.lng]
    ELSE NoCoords

\* Mutant of parentStationId: every trailing N or S goes, not only the last
parentStationIdTwice(stopId) ==
    LET Strip(id) == IF Len(id) > 0 /\ id[Len(id)] \in {"N", "S"}
                     THEN SubSeq(id, 1, Len(id) - 1)
                     ELSE id
    IN  Strip(Strip(stopId))

\* stopLookup: parentStationId, stopId.replace(/[NS]$/, '')
parentStationId(stopId) ==
    IF Len(stopId) > 0 /\ stopId[Len(stopId)] \in {"N", "S"}
    THEN SubSeq(stopId, 1, Len(stopId) - 1)
    ELSE stopId

\* Mutant of getStopCoords: only the stop id as given is looked up
getStopCoordsExactOnly(stopId) == LookupGet(stopId)

\* stopLookup: getStopCoords
getStopCoords(stopId) ==
    IF LookupGet(stopId).found THEN LookupGet(stopId)
    ELSE LookupGet(parentStationId(stopId))

\* ---------------------------------------------------------- vehicle mapper

\* Math.sin of whole degrees 0..90, scaled by TrigScale
TrigScale == 10000

SinTable ==
    << 0, 175, 349, 523, 698, 872, 1045, 1219, 1392, 1564, 1736, 1908, 2079, 2250, 2419,
       2588, 2756, 2924, 3090, 3256, 3420, 3584, 3746, 3907, 4067, 4226, 4384, 4540, 4695,
       4848, 5000, 5150, 5299, 5446, 5592, 5736, 5878, 6018, 6157, 6293, 6428, 6561, 6691,
       6820, 6947, 7071, 7193, 7314, 7431, 7547, 7660, 7771, 7880, 7986, 8090, 8192, 8290,
       8387, 8480, 8572, 8660, 8746, 8829, 8910, 8988, 9063, 9135, 9205, 9272, 9336, 9397,
       9455, 9511, 9563, 9613, 9659, 9703, 9744, 9781, 9816, 9848, 9877, 9903, 9925, 9945,
       9962, 9976, 9986, 9994, 9998, 10000 >>

SinDeg(d) ==
    LET a == d % 360
    IN  IF a <= 90 THEN SinTable[a + 1]
        ELSE IF a <= 180 THEN SinTable[180 - a + 1]
        ELSE IF a <= 270 THEN -SinTable[a - 180 + 1]
        ELSE -SinTable[360 - a + 1]

CosDeg(d) == SinDeg(d + 90)

\* Math.atan2(y, x) * RAD_TO_DEG, brought into [0, 360) and cut to whole degrees:
\* the degree t of the quadrant of (x, y) whose direction is at most a degree
\* clockwise of (x, y)
Atan2Deg(y, x) ==
    IF x = 0 /\ y = 0 THEN 0
    ELSE LET quadrant == IF x > 0 /\ y >= 0 THEN 0
                         ELSE IF x <= 0 /\ y > 0 THEN 90
                         ELSE IF x < 0 /\ y <= 0 THEN 180
                         ELSE 270
         IN  CHOOSE t \in quadrant..(quadrant + 89) :
                /\ CosDeg(t) * y - SinDeg(t) * x >= 0
                /\ CosDeg(t + 1) * y - SinDeg(t + 1) * x < 0

\* vehicleMapper: computeBearing
computeBearing(lat1, lon1, lat2, lon2) ==
    LET p1 == lat1 \div CoordUnit
        p2 == lat2 \div CoordUnit
        dl == (lon2 - lon1) \div CoordUnit
        y == (SinDeg(dl) * CosDeg(p2)) \div TrigScale
        x == (CosDeg(p1) * SinDeg(p2)) \div TrigScale
                - (((SinDeg(p1) * CosDeg(p2)) \div TrigScale) * CosDeg(dl)) \div TrigScale
    IN  ((Atan2Deg(y, x) + 360) % 360) * BearingUnit

\* trainMapper (legacy): cardinalFromBearing, which ends in UNK
trainMapper_cardinalFromBearing(bearing) ==
    IF bearing >= 315 * BearingUnit \/ bearing < 45 * BearingUnit THEN "N"
    ELSE IF bearing >= 45 * BearingUnit /\ bearing < 135 * BearingUnit THEN "E"
    ELSE IF bearing >= 135 * BearingUnit /\ bearing < 225 * BearingUnit THEN "S"
    ELSE IF bearing >= 225 * BearingUnit /\ bearing < 315 * BearingUnit THEN "W"
    ELSE "UNK"

\* Mutant of cardinalFromBearing: the northern sector does not wrap past 0
cardinalFromBearingNoWrap(bearing) ==
    IF bearing >= 315 * BearingUnit THEN "N"
    ELSE IF bearing >= 45 * BearingUnit /\ bearing < 135 * BearingUnit THEN "E"
    ELSE IF bearing >= 135 * BearingUnit /\ bearing < 225 * BearingUnit THEN "S"
    ELSE "W"

\* vehicleMapper: cardinalFromBearing
cardinalFromBearing(bearing) ==
    IF bearing >= 315 * BearingUnit \/ bearing < 45 * BearingUnit THEN "N"
    ELSE IF bearing >= 45 * BearingUnit /\ bearing < 135 * BearingUnit THEN "E"
    ELSE IF bearing >= 135 * BearingUnit /\ bearing < 225 * BearingUnit THEN "S"
    ELSE "W"

\* tripId.match(/\.\.([NS])/): the letter of the leftmost "..N" or "..S"
DotDotMatches(tripId) ==
    {i \in 1..(Len(tripId) - 2) :
        tripId[i] = "." /\ tripId[i + 1] = "." /\ tripId[i + 2] \in {"N", "S"}}

\* Mutant of fallbackDirection: the trip id is asked before the stop id
fallbackDirectionTripFirst(stopId, tripId) ==
    IF Truthy(tripId) /\ DotDotMatches(tripId) # {}
    THEN tripId[(CHOOSE i \in DotDotMatches(tripId) :
                     \A j \in DotDotMatches(tripId) : i <= j) + 2]
    ELSE IF Truthy(stopId) /\ stopId[Len(stopId)] = "N" THEN "N"
    ELSE IF Truthy(stopId) /\ stopId[Len(stopId)] = "S" THEN "S"
    ELSE "UNK"

\* vehicleMapper: fallbackDirection
fallbackDirection(stopId, tripId) ==
    IF Truthy(stopId) /\ stopId[Len(stopId)] = "N" THEN "N"
    ELSE IF Truthy(stopId) /\ stopId[Len(stopId)] = "S" THEN "S"
    ELSE IF Truthy(tripId) /\ DotDotMatches(tripId) # {}
         THEN tripId[(CHOOSE i \in DotDotMatches(tripId) :
                          \A j \in DotDotMatches(tripId) : i <= j) + 2]
    ELSE "UNK"

Unknown == <<"u", "n", "k", "n", "o", "w", "n">>

\* vehicleMapper: createVehicleId
createVehicleId(entity, tripId, stopId) ==
    IF Truthy(entity.id) THEN entity.id
    ELSE (IF tripId = Null THEN Unknown ELSE tripId) \o <<"-">>
            \o (IF stopId = Null THEN Unknown ELSE stopId)

\* Mutant of IndexTripUpdates: the first trip update of a trip id is kept
RECURSIVE IndexTripUpdatesKeepFirst(_, _)
IndexTripUpdatesKeepFirst(entities, acc) ==
    IF entities = <<>> THEN acc
    ELSE LET e == Head(entities)
         IN  IndexTripUpdatesKeepFirst(Tail(entities),
                IF e.tripUpdate # NoTripUpdate /\ Truthy(e.tripUpdate.tripId)
                        /\ ~MapHas(acc, e.tripUpdate.tripId)
                THEN MapSet(acc, e.tripUpdate.tripId, e.tripUpdate)
                ELSE acc)

\* vehicleMapper, lines 93-99: the trip updates of the feed, indexed by trip id
RECURSIVE IndexTripUpdates(_, _)
IndexTripUpdates(entities, acc) ==
    IF entities = <<>> THEN acc
    ELSE LET e == Head(entities)
         IN  IndexTripUpdates(Tail(entities),
                IF e.tripUpdate # NoTripUpdate /\ Truthy(e.tripUpdate.tripId)
                THEN MapSet(acc, e.tripUpdate.tripId, e.tripUpdate)
                ELSE acc)

\* stops.findIndex((s) => s.stopId === stopId), 1-based; 0 when there is none
FindStopIndex(stops, stopId) ==
    IF \E i \in 1..Len(stops) : stops[i].stopId = stopId
    THEN CHOOSE i \in 1..Len(stops) :
            stops[i].stopId = stopId /\ \A j \in 1..(i - 1) : stops[j].stopId # stopId
    ELSE 0

\* vehicleMapper, lines 119-135: the coordinates of the stop after the current one
NextCoords(tripUpdates, tripId, stopId) ==
    IF Truthy(tripId) /\ MapHas(tripUpdates, tripId)
    THEN LET stops == MapGet(tripUpdates, tripId).stopTimeUpdate
             curIdx == FindStopIndex(stops, stopId)
         IN  IF curIdx # 0 /\ curIdx < Len(stops) /\ Truthy(stops[curIdx + 1].stopId)
             THEN getStopCoords(stops[curIdx + 1].stopId)
             ELSE NoCoords
    ELSE NoCoords

\* vehicleMapper, lines 104-171: one entity of the loop; <<>> when it is skipped
MapVehicleEntity(entity, tripUpdates, nowMs) ==
    IF entity.vehicle = NoVehicle THEN <<>>
    ELSE IF ~Truthy(entity.vehicle.routeId) THEN <<>>
    ELSE IF ~Truthy(entity.vehicle.stopId) THEN <<>>
    ELSE IF ~getStopCoords(entity.vehicle.stopId).found THEN <<>>
    ELSE LET routeId == toUpperCase(entity.vehicle.routeId)
             stopId == entity.vehicle.stopId
             tripId == entity.vehicle.tripId
             curCoords == getStopCoords(stopId)
             nextCoords == NextCoords(tripUpdates, tripId, stopId)
             computed == computeBearing(curCoords.lat, curCoords.lng,
                                        nextCoords.lat, nextCoords.lng)
             direction == IF nextCoords.found THEN cardinalFromBearing(computed)
                          ELSE fallbackDirection(stopId, tripId)
             bearing == IF nextCoords.found THEN computed
                        ELSE IF direction = "N" THEN 0
                        ELSE IF direction = "S" THEN 180 * BearingUnit
                        ELSE IF direction = "E" THEN 90 * BearingUnit
                        ELSE IF direction = "W" THEN 270 * BearingUnit
                        ELSE 0
         IN  << [id |-> createVehicleId(entity, tripId, stopId),
                 routeId |-> routeId,
                 latitude |-> curCoords.lat,
                 longitude |-> curCoords.lng,
                 bearing |-> bearing,
                 direction |-> direction,
                 tripId |-> tripId,
                 currentStopId |-> stopId,
                 lastUpdatedMs |-> nowMs] >>

RECURSIVE MapVehicleEntities(_, _, _)
MapVehicleEntities(entities, tripUpdates, nowMs) ==
    IF entities = <<>> THEN <<>>
    ELSE MapVehicleEntity(Head(entities), tripUpdates, nowMs)
            \o MapVehicleEntities(Tail(entities), tripUpdates, nowMs)

\* vehicleMapper: mapVehiclePositions
mapVehiclePositions(feed, nowMs) ==
    MapVehicleEntities(feed.entity, IndexTripUpdates(feed.entity, <<>>), nowMs)

\* ------------------------------------------------------ trip update mapper

\* Mutant of toSeconds: a Long wrapper counts as absent
toSecondsNumbersOnly(value) ==
    IF value.kind = "number" THEN value.n ELSE 0

\* tripUpdateMapper: toSeconds
toSeconds(value) ==
    IF value.kind = "number" THEN value.n
    ELSE IF value.kind = "long" THEN value.n
    ELSE 0

\* The time / delay of a stop time event that may be absent (stopTime.arrival?.time)
EventTime(event) == IF event = NoEvent THEN NoNumber ELSE event.time

EventDelay(event) == IF event = NoEvent THEN NoNumber ELSE event.delay

\* tripId.split('_').pop(): what follows the last underscore
RECURSIVE LastToken(_)
LastToken(str) ==
    IF \E i \in 1..Len(str) : str[i] = "_"
    THEN LastToken(SubSeq(str, (CHOOSE i \in 1..Len(str) : str[i] = "_") + 1, Len(str)))
    ELSE str

\* tripUpdateMapper: extractDirection
extractDirection(tripId) ==
    IF tripId = Null THEN "UNK"
    ELSE IF LastToken(tripId) = <<"N">> THEN "N"
    ELSE IF LastToken(tripId) = <<"S">> THEN "S"
    ELSE "UNK"

\* tripUpdateMapper, lines 46-69: one stop time of a trip; <<>> when it is skipped
MapStopTime(stopTime, routeId, tripId, direction, nowSec) ==
    LET arrivalTime == toSeconds(EventTime(stopTime.arrival))
        departureTime == toSeconds(EventTime(stopTime.departure))
        effectiveArrival == IF arrivalTime # 0 THEN arrivalTime ELSE departureTime
    IN  IF ~Truthy(stopTime.stopId) THEN <<>>
        ELSE IF effectiveArrival = 0 \/ effectiveArrival < nowSec THEN <<>>
        ELSE << [id |-> tripId \o <<"-">> \o stopTime.stopId,
                 routeId |-> routeId,
                 tripId |-> tripId,
                 stopId |-> stopTime.stopId,
                 direction |-> direction,
                 arrivalTime |-> effectiveArrival,
                 departureTime |-> IF departureTime # 0 THEN departureTime
                                   ELSE effectiveArrival,
                 delay |-> toSeconds(EventDelay(stopTime.arrival))] >>

RECURSIVE MapStopTimes(_, _, _, _, _)
MapStopTimes(stopTimes, routeId, tripId, direction, nowSec) ==
    IF stopTimes = <<>> THEN <<>>
    ELSE MapStopTime(Head(stopTimes), routeId, tripId, direction, nowSec)
            \o MapStopTimes(Tail(stopTimes), routeId, tripId, direction, nowSec)

\* tripUpdateMapper, lines 36-70: one entity of the loop
MapTripUpdateEntity(entity, nowSec) ==
    IF entity.tripUpdate = NoTripUpdate THEN <<>>
    ELSE IF ~Truthy(entity.tripUpdate.routeId) THEN <<>>
    ELSE LET tripId == IF entity.tripUpdate.tripId = Null THEN <<>>
                       ELSE entity.tripUpdate.tripId
         IN  MapStopTimes(entity.tripUpdate.stopTimeUpdate,
                          toUpperCase(entity.tripUpdate.routeId),
                          tripId, extractDirection(tripId), nowSec)

RECURSIVE MapTripUpdateEntities(_, _)
MapTripUpdateEntities(entities, nowSec) ==
    IF entities = <<>> THEN <<>>
    ELSE MapTripUpdateEntity(Head(entities), nowSec)
            \o MapTripUpdateEntities(Tail(entities), nowSec)

\* tripUpdateMapper: mapTripUpdates
mapTripUpdates(feed, nowMs) == MapTripUpdateEntities(feed.entity, nowMs \div 1000)

\* Array.prototype.sort((a, b) => a.arrivalTime - b.arrivalTime), which is stable
RECURSIVE SortByArrival(_)
SortByArrival(predictions) ==
    IF predictions = <<>> THEN <<>>
    ELSE LET i == CHOOSE k \in 1..Len(predictions) :
                    /\ \A j \in 1..Len(predictions) :
                            predictions[k].arrivalTime <= predictions[j].arrivalTime
                    /\ \A j \in 1..(k - 1) :
                            predictions[j].arrivalTime # predictions[k].arrivalTime
         IN  <<predictions[i]>>
                \o SortByArrival(SubSeq(predictions, 1, i - 1)
                                    \o SubSeq(predictions, i + 1, Len(predictions)))

\* tripUpdateMapper: filterArrivalsForStation
filterArrivalsForStation(predictions, stationStopId) ==
    LET baseId == parentStationId(stationStopId)
        Matches(p) == parentStationId(p.stopId) = baseId
    IN  SortByArrival(SelectSeq(predictions, Matches))

\* ------------------------------------------------------------ alert mapper

\* An absent TranslatedString
NoText == [absent |-> "translatedString"]

\* transit_realtime.ITranslatedString
Text(translation) == [translation |-> translation]

Translation(language, text) == [language |-> language, text |-> text]

\* transit_realtime.IAlert
Alert(informedEntity, activePeriod, headerText, descriptionText) ==
    [informedEntity |-> informedEntity, activePeriod |-> activePeriod,
     headerText |-> headerText, descriptionText |-> descriptionText]

\* alertMapper: toSeconds, which keeps null
alertToSeconds(value) ==
    IF value.kind = "number" THEN NumberV(value.n)
    ELSE IF value.kind = "long" THEN NumberV(value.n)
    ELSE NoNumber

\* alertMapper: extractTranslatedText
extractTranslatedText(translated) ==
    IF translated = NoText THEN <<>>
    ELSE IF Len(translated.translation) = 0 THEN <<>>
    ELSE LET list == translated.translation
             IsEnglish(t) == ~Truthy(t.language) \/ t.language = <<"e", "n">>
             chosen == IF \E i \in 1..Len(list) : IsEnglish(list[i])
                       THEN list[CHOOSE i \in 1..Len(list) :
                                /\ IsEnglish(list[i])
                                /\ \A j \in 1..(i - 1) : ~IsEnglish(list[j])]
                       ELSE list[1]
         IN  IF chosen.text = Null THEN <<>> ELSE chosen.text

\* Decimal digits of a natural number, as in a template literal
RECURSIVE NumberToString(_)
NumberToString(n) ==
    LET digits == <<"0", "1", "2", "3", "4", "5", "6", "7", "8", "9">>
    IN  IF n < 10 THEN <<digits[n + 1]>>
        ELSE NumberToString(n \div 10) \o <<digits[(n % 10) + 1]>>

\* alertMapper, lines 185-189: the upper-cased informed routes, each once
RECURSIVE InformedRoutes(_, _)
InformedRoutes(informed, acc) ==
    IF informed = <<>> THEN acc
    ELSE InformedRoutes(Tail(informed),
            IF Truthy(Head(informed)) /\ toUpperCase(Head(informed)) \notin Range(acc)
            THEN Append(acc, toUpperCase(Head(informed)))
            ELSE acc)

\* Mutant of NoUsefulInformation: the header alone decides
NoUsefulInformationHeaderOnly(header, description) == header = <<>>

\* alertMapper, line 199: !header && !description
NoUsefulInformation(header, description) == header = <<>> /\ description = <<>>

\* alertMapper, lines 180-210: the loop over the entities
RECURSIVE MapAlertEntities(_, _)
MapAlertEntities(entities, alerts) ==
    IF entities = <<>> THEN alerts
    ELSE LET entity == Head(entities)
             header == extractTranslatedText(entity.alert.headerText)
             description == extractTranslatedText(entity.alert.descriptionText)
         IN  MapAlertEntities(Tail(entities),
                IF entity.alert = NoAlert THEN alerts
                ELSE IF NoUsefulInformation(header, description) THEN alerts
                ELSE Append(alerts,
                        [id |-> IF entity.id = Null
                                THEN <<"a", "l", "e", "r", "t", "-">>
                                        \o NumberToString(Len(alerts))
                                ELSE entity.id,
                         routeIds |-> InformedRoutes(entity.alert.informedEntity, <<>>),
                         header |-> header,
                         description |-> description,
                         activePeriods |->
                            [k \in 1..Len(entity.alert.activePeriod) |->
                                [startTime |-> alertToSeconds(entity.alert.activePeriod[k].start),
                                 endTime |-> alertToSeconds(entity.alert.activePeriod[k].end)]]]))

\* alertMapper: mapAlerts
mapAlerts(feed) == MapAlertEntities(feed.entity, <<>>)

\* alertMapper: filterAlertsForRoutes
filterAlertsForRoutes(alerts, routes) ==
    IF ~routes.present \/ Len(routes.list) = 0 THEN alerts
    ELSE LET routeSet == {toUpperCase(r) : r \in Range(routes.list)}
             Affected(a) == \E rid \in Range(a.routeIds) : rid \in routeSet
         IN  SelectSeq(alerts, Affected)

\* -------------------------------------------------------------- mock feed

\* Math.random() is drawn in steps of 1 / RandomUnit
RandomUnit == 1000

\* The values Math.random() takes, cyclically from the position a call starts at
RandomDraws == <<0, 499, 500, 999>>

RandomStarts == 0..(Len(RandomDraws) - 1)

Random(start, k) == RandomDraws[((start + k) % Len(RandomDraws)) + 1]

\* mockTrainFeed: SEED_TRAINS
SEED_TRAINS ==
    << [id |-> <<"m", "o", "c", "k", "-", "A", "-", "1">>, routeId |-> <<"A">>,
        latitude |-> 407502000, longitude |-> -739934000, bearing |-> 190 * BearingUnit],
       [id |-> <<"m", "o", "c", "k", "-", "7", "-", "1">>, routeId |-> <<"7">>,
        latitude |-> 407528000, longitude |-> -739772000, bearing |-> 92 * BearingUnit],
       [id |-> <<"m", "o", "c", "k", "-", "Q", "-", "1">>, routeId |-> <<"Q">>,
        latitude |-> 407348000, longitude |-> -739901000, bearing |-> 15 * BearingUnit],
       [id |-> <<"m", "o", "c", "k", "-", "4", "-", "1">>, routeId |-> <<"4">>,
        latitude |-> 407053000, longitude |-> -740139000, bearing |-> 10 * BearingUnit],
       [id |-> <<"m", "o", "c", "k", "-", "L", "-", "1">>, routeId |-> <<"L">>,
        latitude |-> 407323000, longitude |-> -739546000, bearing |-> 265 * BearingUnit],
       [id |-> <<"m", "o", "c", "k", "-", "F", "-", "1">>, routeId |-> <<"F">>,
        latitude |-> 407212000, longitude |-> -739984000, bearing |-> 38 * BearingUnit] >>

\* The % operator of JavaScript: the remainder takes the sign of the dividend
JsRem(a, m) == IF a >= 0 THEN a % m ELSE -((-a) % m)

\* Mutant of wrapBearing: a turn is added whatever the sign of the remainder
wrapBearingAlwaysAdds(nextBearing) ==
    JsRem(nextBearing, 360 * BearingUnit) + 360 * BearingUnit

\* mockTrainFeed: wrapBearing
wrapBearing(nextBearing) ==
    LET normalized == JsRem(nextBearing, 360 * BearingUnit)
    IN  IF normalized < 0 THEN normalized + 360 * BearingUnit ELSE normalized

\* mockTrainFeed: jitter, for an amount given in units of 1e-4 degree
jitter(base, amount, r) == base + ((r - RandomUnit \div 2) * amount * (CoordUnit \div 10000)) \div RandomUnit

\* mockTrainFeed: getMockTrains; every seed draws its bearing, latitude and
\* longitude in this order
getMockTrains(nowMs, start) ==
    [i \in 1..Len(SEED_TRAINS) |->
        LET seed == SEED_TRAINS[i]
            nextBearing == wrapBearing(seed.bearing
                              + ((Random(start, 3 * (i - 1)) - RandomUnit \div 2) * 16 * BearingUnit)
                                    \div RandomUnit)
        IN  [id |-> seed.id,
             routeId |-> seed.routeId,
             latitude |-> jitter(seed.latitude, 45, Random(start, 3 * (i - 1) + 1)),
             longitude |-> jitter(seed.longitude, 45, Random(start, 3 * (i - 1) + 2)),
             bearing |-> nextBearing,
             direction |-> IF nextBearing < 90 * BearingUnit \/ nextBearing >= 315 * BearingUnit
                           THEN "N"
                           ELSE IF nextBearing < 180 * BearingUnit THEN "E"
                           ELSE IF nextBearing < 270 * BearingUnit THEN "S"
                           ELSE "W",
             tripId |-> Null,
             currentStopId |-> Null,
             lastUpdatedMs |-> nowMs]]

\* ---------------------------------------------------------- feed contents

A15N == <<"A", "1", "5", "N">>

A16N == <<"A", "1", "6", "N">>

TripNorth == <<"T", "1", ".", ".", "N">>

\* A train of route A at A15 whose trip continues north-east to A16
VehicleA == Entity(<<"v", "1">>, Vehicle(<<"A">>, TripNorth, A15N), NoTripUpdate, NoAlert)

TripA ==
    Entity(<<"t", "1">>, NoVehicle,
           TripUpdate(<<"a">>, TripNorth,
                      << StopTime(A15N, Event(NumberV(7), NumberV(0)), NoEvent),
                         StopTime(A16N, Event(LongV(12), NoNumber), Event(NumberV(13), NoNumber)),
                         StopTime(Null, Event(NumberV(14), NoNumber), NoEvent) >>),
           NoAlert)

\* A train that reuses the entity id of VehicleA: lower-case route, no trip
VehicleC == Entity(<<"v", "1">>, Vehicle(<<"c">>, Null, <<"1", "2", "7", "S">>), NoTripUpdate, NoAlert)

\* A train without an entity id, at a stop without a direction suffix
VehicleL ==
    Entity(Null, Vehicle(<<"L">>, <<"T", "2", "_", "N">>, <<"L", "0", "1">>), NoTripUpdate, NoAlert)

\* Malformed vehicles: a stop the station table does not know, and no route
VehicleNowhere == Entity(<<"v", "5">>, Vehicle(<<"L">>, Null, <<"Z", "9", "9">>), NoTripUpdate, NoAlert)

VehicleNoRoute == Entity(<<"v", "6">>, Vehicle(Null, TripNorth, A15N), NoTripUpdate, NoAlert)

AlertA ==
    Entity(<<"a", "1">>, NoVehicle, NoTripUpdate,
           Alert(<< <<"a">>, Null, <<"A">> >>,
                 << [start |-> NumberV(3), end |-> NoNumber] >>,
                 Text(<< Translation(<<"e", "s">>, <<"h", "o", "l", "a">>),
                         Translation(<<"e", "n">>, <<"h", "i">>) >>),
                 NoText))

AlertEmpty == Entity(Null, NoVehicle, NoTripUpdate, Alert(<<>>, <<>>, NoText, Text(<<>>)))

AlertL ==
    Entity(Null, NoVehicle, NoTripUpdate,
           Alert(<< <<"L">> >>, << [start |-> LongV(1), end |-> LongV(9)] >>,
                 Text(<< Translation(Null, <<"o", "k">>) >>),
                 Text(<< Translation(<<"f", "r">>, Null) >>)))

\* The endpoints that answer at all; every other endpoint is down
UpFeeds == {"ACE", "L"}

\* What an endpoint serves at a given moment
Upstream(feedId, t) ==
    IF feedId = "ACE"
    THEN (IF t < TickMs THEN <<VehicleA, TripA>>
          ELSE IF t < 2 * TickMs THEN <<VehicleA, VehicleC, AlertA>>
          ELSE <<VehicleNoRoute, TripA, AlertEmpty>>)
    ELSE IF feedId = "L"
    THEN (IF t < TickMs THEN <<VehicleC, VehicleL>>
          ELSE IF t < 2 * TickMs THEN <<VehicleNowhere, AlertEmpty, AlertL>>
          ELSE <<VehicleL, VehicleA>>)
    ELSE <<>>

\* FeedMessage.decode: the entities of the message an endpoint answered with
Decode(message) == [entity |-> Upstream(message.feed, message.ts)]

\* ---------------------------------------------------------- subway service

\* subwayService: deduplicateVehicles
RECURSIVE DedupInto(_, _)
DedupInto(vehicles, map) ==
    IF vehicles = <<>> THEN map
    ELSE DedupInto(Tail(vehicles), MapSet(map, Head(vehicles).id, Head(vehicles)))

\* Mutant of deduplicateVehicles: the first vehicle of an id is kept
deduplicateVehiclesKeepFirst(vehicles) ==
    LET First(i) == \A j \in 1..(i - 1) : vehicles[j].id # vehicles[i].id
        RECURSIVE Keep(_)
        Keep(i) == IF i > Len(vehicles) THEN <<>>
                   ELSE (IF First(i) THEN <<vehicles[i]>> ELSE <<>>) \o Keep(i + 1)
    IN  Keep(1)

deduplicateVehicles(vehicles) == MapValues(DedupInto(vehicles, <<>>))

\* subwayService: collectMessages
RECURSIVE CollectEntities(_)
CollectEntities(messages) ==
    IF messages = <<>> THEN <<>>
    ELSE Decode(Head(messages)).entity \o CollectEntities(Tail(messages))

collectMessages(results) == [entity |-> CollectEntities(MapValues(results))]

\* fetchVehicles, lines 103-106: every message is mapped on its own
RECURSIVE MapEachMessage(_, _)
MapEachMessage(messages, nowMs) ==
    IF messages = <<>> THEN <<>>
    ELSE mapVehiclePositions(Decode(Head(messages)), nowMs)
            \o MapEachMessage(Tail(messages), nowMs)

\* fetchVehicles, lines 111-114 and fetchAll, lines 162-165: the route filter
FilterByRoutes(vehicles, routes) ==
    IF routes.present /\ Len(routes.list) > 0
    THEN LET routeSet == {toUpperCase(r) : r \in Range(routes.list)}
             Requested(v) == v.routeId \in routeSet
         IN  SelectSeq(vehicles, Requested)
    ELSE vehicles

\* Mutant of TotalFailure: the fallback is never taken
TotalFailureNever(results) == FALSE

\* results.size === 0
TotalFailure(results) == Len(results) = 0

\* fetchVehicles, lines 91-116: what follows the await, as the new _lastMode and
\* the value returned
fetchVehiclesBody(routes, results, mode, nowMs, start) ==
    IF TotalFailure(results)
    THEN [mode |-> "mock", value |-> getMockTrains(nowMs, start)]
    ELSE [mode |-> "live",
          value |-> FilterByRoutes(
                        deduplicateVehicles(MapEachMessage(MapValues(results), nowMs)),
                        routes)]

\* fetchArrivals, lines 121-125
fetchArrivalsBody(stationId, results, mode, nowMs) ==
    IF TotalFailure(results) THEN [mode |-> mode, value |-> <<>>]
    ELSE [mode |-> mode,
          value |-> filterArrivalsForStation(
                        mapTripUpdates(collectMessages(results), nowMs), stationId)]

\* fetchAlerts, lines 130-134
fetchAlertsBody(routes, results, mode) ==
    IF TotalFailure(results) THEN [mode |-> mode, value |-> <<>>]
    ELSE [mode |-> mode,
          value |-> filterAlertsForRoutes(mapAlerts(collectMessages(results)), routes)]

\* fetchAll, lines 141-171
fetchAllBody(routes, results, mode, nowMs, start) ==
    IF TotalFailure(results)
    THEN [mode |-> "mock",
          value |-> [vehicles |-> getMockTrains(nowMs, start),
                     arrivals |-> <<>>, alerts |-> <<>>]]
    ELSE LET merged == collectMessages(results)
         IN  [mode |-> "live",
              value |-> [vehicles |-> FilterByRoutes(
                                          deduplicateVehicles(mapVehiclePositions(merged, nowMs)),
                                          routes),
                         arrivals |-> mapTripUpdates(merged, nowMs),
                         alerts |-> filterAlertsForRoutes(mapAlerts(merged), routes)]]

\* The arguments the service methods are called with
RoutesArgs == {Undefined, Routes(<< <<"L">>, <<"a">> >>)}

StationArgs == {<<"A", "1", "5">>, <<"A", "1", "6", "S">>}

\* The options the service is constructed with
ServiceOptionChoices ==
    {DefaultOptions, [useSignal |-> TRUE, cacheTtlMs |-> 0, noRetry |-> FALSE]}

\* How the calls of a batch that do not succeed fail, endpoint by endpoint
FailurePatterns ==
    { [f \in FeedId |-> IF f \in {"ACE", "G", "L", "SI"} THEN "decode" ELSE "transport"],
      [f \in FeedId |-> IF f \in {"Default", "JZ"} THEN "abort"
                        ELSE IF f \in {"BDFM", "NQRW"} THEN "decode" ELSE "transport"] }

\* The service method awaits fetchFeeds: the batch starts as in FetchFeedsStart
AwaitFetchFeeds(b, feedIds, op, routes, stationId) ==
    /\ batch[b].state = "idle"
    /\ \A lower \in 1..(b - 1) : batch[lower].state = "running"
    /\ batch' = [batch EXCEPT ![b] =
            [state |-> "running", feedIds |-> feedIds, opts |-> fetchOptions,
             calls |-> [i \in 1..Len(feedIds) |->
                          StartFetchFeed(feedIds[i], fetchOptions, cache, now, aborted)]]]
    /\ svc' = [svc EXCEPT ![b] = [op |-> op, routes |-> routes, stationId |-> stationId]]
    /\ returned' = NoReturn
    /\ refreshDue' = [f \in FeedId |-> refreshDue[f] /\ f \notin Range(feedIds)]
    /\ UNCHANGED <<now, aborted, cache, fetchOptions, lastMode, subwayEntrances>>

\* fetchVehicles, lines 88-89
fetchVehiclesStart(b, routes) ==
    /\ svc[b] = NoService
    /\ AwaitFetchFeeds(b, getFeedsForRoutes(routes), "fetchVehicles", routes, <<>>)

\* fetchArrivals, line 120
fetchArrivalsStart(b, stationId) ==
    /\ svc[b] = NoService
    /\ AwaitFetchFeeds(b, ALL_FEEDS, "fetchArrivals", Undefined, stationId)

\* fetchAlerts, line 129
fetchAlertsStart(b, routes) ==
    /\ svc[b] = NoService
    /\ AwaitFetchFeeds(b, ALL_FEEDS, "fetchAlerts", routes, <<>>)

\* fetchAll, lines 138-139
fetchAllStart(b, routes) ==
    /\ svc[b] = NoService
    /\ AwaitFetchFeeds(b, getFeedsForRoutes(routes), "fetchAll", routes, <<>>)

\* How a fetchFeed call ends: a cache hit is fulfilled already; a request issued
\* on an aborted signal is rejected with the AbortError; any other request is
\* answered by its endpoint (up) or fails the way the pattern says
FinishCall(call, feedId, up, kinds) ==
    IF call.pc # "net" THEN call
    ELSE IF call.cancelled
    THEN [call EXCEPT !.pc = "rejected", !.reason = "abort",
                      !.issuedAt = 0, !.cancelled = FALSE]
    ELSE IF feedId \in up
    THEN [call EXCEPT !.pc = "fulfilled", !.value = MessageOf(feedId, call.issuedAt),
                      !.issuedAt = 0, !.cancelled = FALSE]
    ELSE [call EXCEPT !.pc = "rejected", !.reason = kinds[feedId],
                      !.issuedAt = 0, !.cancelled = FALSE]

FinishCalls(b, up, kinds) ==
    [i \in 1..Len(batch[b].calls) |->
        FinishCall(batch[b].calls[i], batch[b].feedIds[i], up, kinds)]

\* fetchFeed, line 133, for every request of the batch that was answered
RECURSIVE StoreFetched(_, _, _, _, _, _)
StoreFetched(c, feedIds, calls, final, k, t) ==
    IF k > Len(calls) THEN c
    ELSE StoreFetched(
            IF calls[k].pc = "net" /\ final[k].pc = "fulfilled"
            THEN CachePut(c, feedIds[k], final[k].value, t) ELSE c,
            feedIds, calls, final, k + 1, t)

\* The batch a service method awaits settles and the method runs to its end.
\* body is what the method computes from the batch's results.
ServiceResume(b, op, final, r, body) ==
    /\ \A i \in 1..Len(final) :
            final[i].reason = "abort" => (fetchOptions.useSignal /\ aborted)
    /\ cache' = StoreFetched(cache, batch[b].feedIds, batch[b].calls, final, 1, now)
    /\ lastMode' = IF r.outcome = "resolved" THEN body.mode ELSE lastMode
    /\ returned' = [op |-> op, routes |-> svc[b].routes, stationId |-> svc[b].stationId,
                    feedIds |-> batch[b].feedIds,
                    settled |-> SettledOf(batch[b].feedIds, final),
                    outcome |-> r.outcome, results |-> r.results, errors |-> r.errors,
                    value |-> IF r.outcome = "resolved" THEN body.value ELSE <<>>]
    /\ batch' = [batch EXCEPT ![b] = IdleBatch]
    /\ svc' = [svc EXCEPT ![b] = NoService]
    /\ UNCHANGED <<now, aborted, fetchOptions, refreshDue, subwayEntrances>>

Awaiting(b, op) == batch[b].state = "running" /\ svc[b].op = op

\* Where the random sequence may stand when getMockTrains draws from it; a call
\* that does not fall back draws nothing
DrawsFrom(results) == IF TotalFailure(results) THEN RandomStarts ELSE {0}

\* fetchVehicles, lines 89-117
fetchVehiclesResume(b) ==
    /\ Awaiting(b, "fetchVehicles")
    /\ \E up \in SUBSET UpFeeds, kinds \in FailurePatterns :
          LET final == FinishCalls(b, up, kinds)
              r == fetchFeeds(batch[b].feedIds, SettledOf(batch[b].feedIds, final))
          IN  \E start \in DrawsFrom(r.results) :
              ServiceResume(b, "fetchVehicles", final, r,
                  fetchVehiclesBody(svc[b].routes, r.results, lastMode, now, start))

\* fetchArrivals, lines 120-126
fetchArrivalsResume(b) ==
    /\ Awaiting(b, "fetchArrivals")
    /\ \E up \in SUBSET UpFeeds, kinds \in FailurePatterns :
          LET final == FinishCalls(b, up, kinds)
              r == fetchFeeds(batch[b].feedIds, SettledOf(batch[b].feedIds, final))
          IN  ServiceResume(b, "fetchArrivals", final, r,
                  fetchArrivalsBody(svc[b].stationId, r.results, lastMode, now))

\* fetchAlerts, lines 129-135
fetchAlertsResume(b) ==
    /\ Awaiting(b, "fetchAlerts")
    /\ \E up \in SUBSET UpFeeds, kinds \in FailurePatterns :
          LET final == FinishCalls(b, up, kinds)
              r == fetchFeeds(batch[b].feedIds, SettledOf(batch[b].feedIds, final))
          IN  ServiceResume(b, "fetchAlerts", final, r,
                  fetchAlertsBody(svc[b].routes, r.results, lastMode))

\* fetchAll, lines 139-172
fetchAllResume(b) ==
    /\ Awaiting(b, "fetchAll")
    /\ \E up \in SUBSET UpFeeds, kinds \in FailurePatterns :
          LET final == FinishCalls(b, up, kinds)
              r == fetchFeeds(batch[b].feedIds, SettledOf(batch[b].feedIds, final))
          IN  \E start \in DrawsFrom(r.results) :
              ServiceResume(b, "fetchAll", final, r,
                  fetchAllBody(svc[b].routes, r.results, lastMode, now, start))

\* get mode()
mode == lastMode

\* A caller other than the hooks may call a service method
ServiceSlotFree ==
    Cardinality({other \in Batches : batch[other].state = "running"}) < MaxServiceCalls

\* The batch slot holds no call made by a hook
NotAHookCall(b) ==
    /\ liveTrains.refresh[b].pc = "idle"
    /\ stationArrivals.refresh[b].pc = "idle"

\* A step of a service method called by a caller other than the hooks
CalledDirectly(step) == step /\ UNCHANGED hookVars

InitService ==
    /\ now = 0
    /\ aborted = FALSE
    /\ cache = [f \in FeedId |-> NoEntry]
    /\ batch = [b \in Batches |-> IdleBatch]
    /\ fetchOptions \in ServiceOptionChoices
    /\ returned = NoReturn
    /\ lastMode = "live"
    /\ svc = [b \in Batches |-> NoService]
    /\ refreshDue = [f \in FeedId |-> FALSE]
    /\ subwayEntrances = EntrancesUnloaded
    /\ trainStore = TrainStoreCreated
    /\ arrivalStore = ArrivalStoreCreated
    /\ liveTrains = LiveTrainsUnmounted
    /\ stationArrivals = StationArrivalsUnmounted

NextService ==
    \/ \E b \in Batches, routes \in RoutesArgs :
          ServiceSlotFree /\ CalledDirectly(fetchVehiclesStart(b, routes))
    \/ \E b \in Batches, stationId \in StationArgs :
          ServiceSlotFree /\ CalledDirectly(fetchArrivalsStart(b, stationId))
    \/ \E b \in Batches, routes \in RoutesArgs :
          ServiceSlotFree /\ CalledDirectly(fetchAlertsStart(b, routes))
    \/ \E b \in Batches, routes \in RoutesArgs :
          ServiceSlotFree /\ CalledDirectly(fetchAllStart(b, routes))
    \/ \E b \in Batches : NotAHookCall(b) /\ CalledDirectly(fetchVehiclesResume(b))
    \/ \E b \in Batches : NotAHookCall(b) /\ CalledDirectly(fetchArrivalsResume(b))
    \/ \E b \in Batches : NotAHookCall(b) /\ CalledDirectly(fetchAlertsResume(b))
    \/ \E b \in Batches : NotAHookCall(b) /\ CalledDirectly(fetchAllResume(b))
    \/ Abort
    \/ Tick
    \/ clearFeedCache

SpecService == InitService /\ [][NextService]_vars

\* ------------------------------------------------- the exported functions

\* Sequences over a set, up to a length
SeqsUpTo(S, n) == UNION {[1..k -> S] : k \in 0..n}

\* Line ids as callers write them: known, lower-case, two-letter, unknown, empty
RouteNames ==
    { <<"A">>, <<"a">>, <<"C">>, <<"7">>, <<"L">>, <<"s", "i">>, <<"X">>, <<>> }

RegistryInputs == {Undefined} \cup {Routes(l) : l \in SeqsUpTo(RouteNames, MaxRoutes)}

\* A caller applies an exported function; nothing else is in progress
InitFunctions ==
    /\ now \in {k * TickMs : k \in 0..(MaxTime \div TickMs)}
    /\ aborted = FALSE
    /\ cache = [f \in FeedId |-> NoEntry]
    /\ batch = [b \in Batches |-> IdleBatch]
    /\ fetchOptions = DefaultOptions
    /\ returned = NoReturn
    /\ lastMode = "live"
    /\ svc = [b \in Batches |-> NoService]
    /\ refreshDue = [f \in FeedId |-> FALSE]
    /\ subwayEntrances = EntrancesUnloaded
    /\ trainStore = TrainStoreCreated
    /\ arrivalStore = ArrivalStoreCreated
    /\ liveTrains = LiveTrainsUnmounted
    /\ stationArrivals = StationArrivalsUnmounted

\* The caller is done with the value the last call returned
Discard ==
    /\ returned # NoReturn
    /\ returned' = NoReturn
    /\ UNCHANGED <<now, aborted, cache, batch, fetchOptions, lastMode, svc, refreshDue, subwayEntrances, hookVars>>

\* feedRegistry: getFeedsForRoutes, called
CallGetFeedsForRoutes(routes) ==
    /\ returned = NoReturn
    /\ returned' = [op |-> "getFeedsForRoutes", routes |-> routes,
                    value |-> getFeedsForRoutes(routes)]
    /\ UNCHANGED <<now, aborted, cache, batch, fetchOptions, lastMode, svc, refreshDue, subwayEntrances, hookVars>>

\* The bearings the direction functions are applied to: every whole degree
WholeDegrees == {d * BearingUnit : d \in 0..359}

\* vehicleMapper and trainMapper: cardinalFromBearing, called
CallCardinalFromBearing(bearing) ==
    /\ returned = NoReturn
    /\ returned' = [op |-> "cardinalFromBearing", bearing |-> bearing,
                    value |-> cardinalFromBearing(bearing),
                    legacy |-> trainMapper_cardinalFromBearing(bearing)]
    /\ UNCHANGED <<now, aborted, cache, batch, fetchOptions, lastMode, svc, refreshDue, subwayEntrances, hookVars>>

\* Stop time updates as feeds carry them: arrival ahead, arrival past with a
\* later departure, arrival 0, departure only, Long values, no stop id, no times
StopTimeInputs ==
    { StopTime(A15N, Event(NumberV(9), NumberV(60)), NoEvent),
      StopTime(A15N, Event(NumberV(4), NoNumber), Event(NumberV(9), NoNumber)),
      StopTime(<<"A", "1", "5", "S">>, Event(NumberV(0), NoNumber), Event(NumberV(9), NoNumber)),
      StopTime(A16N, NoEvent, Event(LongV(5), NoNumber)),
      StopTime(A16N, Event(LongV(9), LongV(30)), Event(NumberV(4), NoNumber)),
      StopTime(Null, Event(NumberV(9), NoNumber), NoEvent),
      StopTime(<<>>, Event(NumberV(9), NoNumber), NoEvent),
      StopTime(A15N, NoEvent, NoEvent),
      StopTime(A15N, Event(NoNumber, NumberV(5)), Event(NoNumber, NoNumber)) }

\* Feeds for mapTripUpdates: a vehicle, a trip update built from the inputs, and
\* a second trip update
TripFeedInputs ==
    { [entity |-> <<VehicleA, Entity(<<"t", "0">>, NoVehicle, TripUpdate(r, t, stops), NoAlert),
                   TripA>>] :
        r \in {<<"a">>, Null, <<>>},
        t \in {Null, <<"T", "_", "N">>},
        stops \in SeqsUpTo(StopTimeInputs, MaxStopTimes) }

\* tripUpdateMapper: mapTripUpdates, called
CallMapTripUpdates(feed) ==
    /\ returned = NoReturn
    /\ returned' = [op |-> "mapTripUpdates", feed |-> feed, value |-> mapTripUpdates(feed, now)]
    /\ UNCHANGED <<now, aborted, cache, batch, fetchOptions, lastMode, svc, refreshDue, subwayEntrances, hookVars>>

\* Predictions as mapTripUpdates emits them, reduced to the fields the filter reads
PredictionInputs ==
    { [id |-> <<"T", "-">> \o stopId, stopId |-> stopId, arrivalTime |-> t] :
        stopId \in {A15N, <<"A", "1", "5", "S">>, <<"A", "1", "5">>, A16N,
                    <<"A", "1", "5", "N", "N">>},
        t \in {5, 7} }

\* Station stop ids the filter is asked for
StationInputs ==
    {<<"A", "1", "5">>, <<"A", "1", "5", "S">>, <<"A", "1", "5", "N", "S">>, <<"A", "1", "6">>}

\* tripUpdateMapper: filterArrivalsForStation, called. filter() builds a new
\* array and sort() orders that new array in place, so the argument is as it was.
CallFilterArrivalsForStation(predictions, stationStopId) ==
    /\ returned = NoReturn
    /\ returned' = [op |-> "filterArrivalsForStation",
                    before |-> predictions,
                    predictions |-> predictions,
                    stationStopId |-> stationStopId,
                    value |-> filterArrivalsForStation(predictions, stationStopId)]
    /\ UNCHANGED <<now, aborted, cache, batch, fetchOptions, lastMode, svc, refreshDue, subwayEntrances, hookVars>>

\* Translated strings as feeds carry them: absent, without translations, a
\* translation without text, a foreign text ahead of an empty English one, a
\* foreign text alone
AlertTextInputs ==
    { NoText,
      Text(<<>>),
      Text(<< Translation(Null, Null) >>),
      Text(<< Translation(<<"e", "s">>, <<"h", "o", "l", "a">>),
              Translation(<<"e", "n">>, <<>>) >>),
      Text(<< Translation(<<"f", "r">>, <<"o", "k">>) >>) }

\* Entities for mapAlerts: alerts over the translated strings, and a vehicle
AlertEntityInputs ==
    { Entity(Null, NoVehicle, NoTripUpdate, Alert(<< <<"a">> >>, <<>>, header, description)) :
        header \in AlertTextInputs, description \in AlertTextInputs }
    \cup {VehicleA}

\* alertMapper: mapAlerts, called
CallMapAlerts(feed) ==
    /\ returned = NoReturn
    /\ returned' = [op |-> "mapAlerts", feed |-> feed, value |-> mapAlerts(feed)]
    /\ UNCHANGED <<now, aborted, cache, batch, fetchOptions, lastMode, svc, refreshDue, subwayEntrances, hookVars>>

\* Vehicles as feeds carry them: the trains of the endpoint contents, a train
\* at a stop id without suffix whose trip id holds a "..S" token, a train
\* without stop, a train without entity id and trip id, and a train whose stop
\* id ends in N while its trip id holds a "..S" token
VehicleInputs ==
    { VehicleA, VehicleC, VehicleL, VehicleNowhere, VehicleNoRoute,
      Entity(Null, Vehicle(<<"a">>, <<"T", "3", ".", ".", "S">>, <<"A", "1", "5">>),
             NoTripUpdate, NoAlert),
      Entity(<<"v", "7">>, Vehicle(<<"A">>, TripNorth, Null), NoTripUpdate, NoAlert),
      Entity(Null, Vehicle(<<"A">>, Null, <<"R", "2", "0", "N">>), NoTripUpdate, NoAlert),
      Entity(<<"v", "8">>, Vehicle(<<"c">>, <<"T", "4", ".", ".", "S">>, <<"1", "2", "7", "N">>),
             NoTripUpdate, NoAlert) }

\* The stop time updates of a trip that calls at the given stops
CallsAt(stopIds) == [i \in 1..Len(stopIds) |-> StopTime(stopIds[i], NoEvent, NoEvent)]

\* Trip updates as feeds carry them. For trip T1..N: on to A16; on to 127, due
\* east; A15N as the last stop; on to a stop the table does not know; on to a
\* stop without id; A15N twice, first ahead of an unknown stop. For trip T3..S:
\* from A15 on to L01, due west. Without trip id: on to A16.
TripUpdateInputs ==
    { Entity(Null, NoVehicle, TripUpdate(<<"A">>, t[1], CallsAt(t[2])), NoAlert) :
        t \in { <<TripNorth, <<A15N, A16N>> >>,
                <<TripNorth, <<A15N, <<"1", "2", "7", "S">> >> >>,
                <<TripNorth, <<A16N, A15N>> >>,
                <<TripNorth, <<A15N, <<"Z", "9", "9", "N">> >> >>,
                <<TripNorth, <<A15N, Null>> >>,
                <<TripNorth, <<A15N, <<"Z", "9", "9", "N">>, A15N, A16N>> >>,
                << <<"T", "3", ".", ".", "S">>, << <<"A", "1", "5">>, <<"L", "0", "1">> >> >>,
                <<Null, <<A15N, A16N>> >> } }

\* vehicleMapper: mapVehiclePositions, called
CallMapVehiclePositions(feed) ==
    /\ returned = NoReturn
    /\ returned' = [op |-> "mapVehiclePositions", feed |-> feed,
                    value |-> mapVehiclePositions(feed, now)]
    /\ UNCHANGED <<now, aborted, cache, batch, fetchOptions, lastMode, svc, refreshDue, subwayEntrances, hookVars>>

\* Translations as feeds carry them: untagged, English, foreign, English
\* without text, with an empty tag
TranslationInputs ==
    { Translation(Null, <<"x">>),
      Translation(<<"e", "n">>, <<"h", "i">>),
      Translation(<<"e", "s">>, <<"h", "o", "l", "a">>),
      Translation(<<"e", "n">>, Null),
      Translation(<<>>, <<"y">>) }

\* alertMapper: extractTranslatedText, called (mapAlerts calls it for the header
\* and for the description)
CallExtractTranslatedText(translated) ==
    /\ returned = NoReturn
    /\ returned' = [op |-> "extractTranslatedText", translated |-> translated,
                    value |-> Text(extractTranslatedText(translated))]
    /\ UNCHANGED <<now, aborted, cache, batch, fetchOptions, lastMode, svc, refreshDue, subwayEntrances, hookVars>>

\* The inputs a call is made with; the caller makes none while it holds the
\* value of the last call
Inputs(S) == IF returned = NoReturn THEN S ELSE {}

NextFunctions ==
    \/ Discard
    \/ \E routes \in Inputs(RegistryInputs) : CallGetFeedsForRoutes(routes)
    \/ \E bearing \in Inputs(WholeDegrees) : CallCardinalFromBearing(bearing)
    \/ \E feed \in Inputs(TripFeedInputs) : CallMapTripUpdates(feed)
    \/ \E entities \in Inputs(SeqsUpTo(AlertEntityInputs, MaxAlertEntities)) :
            CallMapAlerts([entity |-> entities])
    \/ \E entities \in Inputs(SeqsUpTo(VehicleInputs \cup TripUpdateInputs, MaxFeedEntities)) :
            CallMapVehiclePositions([entity |-> entities])
    \/ \E translated \in Inputs({NoText} \cup
                {Text(t) : t \in SeqsUpTo(TranslationInputs, MaxTranslations)}) :
            CallExtractTranslatedText(translated)
    \/ \E predictions \in Inputs(SeqsUpTo(PredictionInputs, MaxPredictions)),
          stationStopId \in StationInputs :
            CallFilterArrivalsForStation(predictions, stationStopId)

SpecFunctions == InitFunctions /\ [][NextFunctions]_vars

\* ----------------------------------------------- subway entrances: loader

\* A SodaRow; parseFloat of a missing coordinate is NaN
SodaRow(stopId, complexId, latitude, longitude) ==
    [gtfs_stop_id |-> stopId, complex_id |-> complexId,
     entrance_latitude |-> latitude, entrance_longitude |-> longitude]

\* What resp.json() may deliver: no rows; rows of one complex with a row
\* without coordinates and a row without stop id; something that is not a list
RowsInputs ==
    { [rows |-> <<>>],
      [rows |-> << SodaRow(<<"A", "1", "5">>, <<"6", "0", "1">>, NumberV(40), NumberV(-73)),
                   SodaRow(<<"A", "1", "6">>, <<"6", "0", "1">>, NoNumber, NumberV(-73)),
                   SodaRow(Null, <<"6", "0", "1">>, NumberV(41), NumberV(-74)) >>],
      [absent |-> "rows"] }

\* loadEntrances, lines 43-69: the loop over the rows
RECURSIVE BuildEntranceMaps(_, _, _)
BuildEntranceMaps(rows, cMap, sMap) ==
    IF rows = <<>> THEN [cMap |-> cMap, sMap |-> sMap]
    ELSE LET row == Head(rows)
             complexId == IF row.complex_id = Null THEN <<>> ELSE row.complex_id
             stopId == IF row.gtfs_stop_id = Null THEN <<>> ELSE row.gtfs_stop_id
             entrance == [lat |-> row.entrance_latitude.n, lng |-> row.entrance_longitude.n]
         IN  IF row.entrance_latitude = NoNumber \/ row.entrance_longitude = NoNumber
             THEN BuildEntranceMaps(Tail(rows), cMap, sMap)
             ELSE BuildEntranceMaps(Tail(rows),
                    IF MapHas(cMap, complexId)
                    THEN MapSet(cMap, complexId, Append(MapGet(cMap, complexId), entrance))
                    ELSE MapSet(cMap, complexId, <<entrance>>),
                    IF stopId # <<>> /\ complexId # <<>>
                    THEN MapSet(sMap, stopId, complexId) ELSE sMap)

\* Mutant of LoadNeeded: the data, not the singleton promise, decides
LoadNeededUntilData(m) == m.complexEntrances = NoMap

\* ensureEntrancesLoaded, line 87: !fetchPromise
LoadNeeded(m) == m.fetchPromise = "null"

\* loadEntrances, lines 73-78: the catch block; the async function then returns
LoadCaught(m) ==
    [m EXCEPT !.complexEntrances = MapOf(<<>>), !.stopToComplex = MapOf(<<>>),
              !.load = "caught", !.fetchPromise = "fulfilled"]

\* loadEntrances, lines 71-72, and the return of the async function
LoadStored(m, rows) ==
    LET maps == BuildEntranceMaps(rows, <<>>, <<>>)
    IN  [m EXCEPT !.complexEntrances = MapOf(maps.cMap), !.stopToComplex = MapOf(maps.sMap),
                  !.load = "done", !.fetchPromise = "fulfilled"]

\* subwayEntrances.ts: isEntranceDataReady
isEntranceDataReady == subwayEntrances.complexEntrances # NoMap

OtherThanEntrances == <<now, aborted, cache, batch, fetchOptions, returned, lastMode, svc, refreshDue, hookVars>>

\* ensureEntrancesLoaded, lines 85-90, up to its await (or its return)
ensureEntrancesLoaded(c) ==
    LET m == subwayEntrances
        counted == [m EXCEPT !.called[c] = @ + 1]
    IN  /\ m.calls[c] \in {"idle", "resolved"}
        /\ m.called[c] < MaxEntranceCalls
        /\ subwayEntrances' =
              IF m.complexEntrances # NoMap /\ m.stopToComplex # NoMap
              THEN [counted EXCEPT !.calls[c] = "resolved"]
              ELSE IF LoadNeeded(m)
              THEN [counted EXCEPT !.calls[c] = "awaiting", !.fetchPromise = "pending",
                                   !.load = "fetch", !.requests = @ + 1]
              ELSE [counted EXCEPT !.calls[c] = "awaiting"]
        /\ UNCHANGED OtherThanEntrances

\* loadEntrances, lines 36-37: fetch settles. A response that is ok goes on to
\* resp.json(); a rejection or a status that is not ok goes to the catch block.
EntranceFetchSettles(ok) ==
    /\ subwayEntrances.load = "fetch"
    /\ subwayEntrances' = IF ok THEN [subwayEntrances EXCEPT !.load = "json"]
                          ELSE LoadCaught(subwayEntrances)
    /\ UNCHANGED OtherThanEntrances

\* loadEntrances, lines 38-72: resp.json() settles. A rejection, or a body that
\* cannot be iterated, goes to the catch block.
EntranceJsonSettles(parsed, body) ==
    /\ subwayEntrances.load = "json"
    /\ subwayEntrances' = IF parsed /\ body # [absent |-> "rows"]
                          THEN LoadStored(subwayEntrances, body.rows)
                          ELSE LoadCaught(subwayEntrances)
    /\ UNCHANGED OtherThanEntrances

\* ensureEntrancesLoaded, line 90: await fetchPromise resumes
EntranceAwaitResumes(c) ==
    /\ subwayEntrances.calls[c] = "awaiting"
    /\ subwayEntrances.fetchPromise \in {"fulfilled", "rejected"}
    /\ subwayEntrances' = [subwayEntrances EXCEPT !.calls[c] =
            IF subwayEntrances.fetchPromise = "fulfilled" THEN "resolved" ELSE "rejected"]
    /\ UNCHANGED OtherThanEntrances

NextEntrances ==
    \/ \E c \in EntranceCallers : ensureEntrancesLoaded(c)
    \/ \E ok \in BOOLEAN : EntranceFetchSettles(ok)
    \/ \E parsed \in BOOLEAN, body \in RowsInputs : EntranceJsonSettles(parsed, body)
    \/ \E c \in EntranceCallers : EntranceAwaitResumes(c)

\* The module as loaded, nothing called yet
InitEntrances ==
    /\ InitFunctions
    /\ now = 0

\* The request settles at some point, and a promise reaction that is queued runs
SpecEntrances ==
    /\ InitEntrances
    /\ [][NextEntrances]_vars
    /\ WF_vars(\E ok \in BOOLEAN : EntranceFetchSettles(ok))
    /\ WF_vars(\E parsed \in BOOLEAN, body \in RowsInputs : EntranceJsonSettles(parsed, body))
    /\ \A c \in EntranceCallers : WF_vars(EntranceAwaitResumes(c))

\* ------------------------------------------------------------ store actions

\* trainStore.ts, lines 23-28: setTrains
setTrains(store, trains, newMode, t) ==
    [store EXCEPT !.trains = trains, !.mode = newMode, !.lastUpdatedMs = NumberV(t)]

\* trainStore.ts and arrivalStore.ts: setLoading
setLoading(store, isLoading) == [store EXCEPT !.isLoading = isLoading]

\* trainStore.ts and arrivalStore.ts: setError
setError(store, errorMessage) == [store EXCEPT !.errorMessage = errorMessage]

\* arrivalStore.ts, lines 23-27: setArrivals
setArrivals(store, stationId, arrivals, t) ==
    [store EXCEPT !.arrivals = MapSet(@, stationId, arrivals),
                  !.lastUpdatedMs = NumberV(t)]

\* arrivalStore.ts, lines 29-33: clearStation
clearStation(store, stationId) ==
    [store EXCEPT !.arrivals = SelectSeq(@, LAMBDA entry : entry.key # stationId)]

\* ------------------------------------------------------------------- hooks

\* hooks/useLiveTrains.ts, line 6
REFRESH_MS == 15000

\* hooks/useStationArrivals.ts, line 6 (REFRESH_MS of that module)
STATION_REFRESH_MS == 30000

\* error.message of a rejection
ErrorMessage == <<"e", "r", "r", "o", "r">>

\* export const subwayService = new MTASubwayService(): the shared instance has
\* the default fetch options
InitHooks ==
    /\ InitService
    /\ fetchOptions = DefaultOptions

\* Time passes while the hooks are mounted
ClockAdvances ==
    /\ now + HookTickMs <= MaxHookTime
    /\ now' = now + HookTickMs
    /\ returned' = NoReturn
    /\ UNCHANGED <<aborted, cache, batch, fetchOptions, lastMode, svc, refreshDue, subwayEntrances, hookVars>>

\* What the hook remembers of the service method's promise once it is settled
SettledRefresh(call, result) ==
    [call EXCEPT !.pc = "settled", !.outcome = result.outcome, !.value = result.value,
                 !.fallback = (result.outcome = "resolved" /\ TotalFailure(result.results))]

\* useLiveTrains, lines 27-31: refresh, up to its await. hook is the hook as the
\* caller of refresh leaves it.
LiveTrainsRefreshStarts(b, hook) ==
    /\ NotAHookCall(b)
    /\ liveTrains.started < MaxRefreshes
    /\ trainStore' = setError(setLoading(trainStore, TRUE), Null)
    /\ fetchVehiclesStart(b, hook.routes)
    /\ liveTrains' = [hook EXCEPT !.started = @ + 1,
                                  !.refresh[b] = [NoRefresh EXCEPT !.pc = "awaiting",
                                                                   !.seq = hook.started + 1]]
    /\ UNCHANGED <<arrivalStore, stationArrivals>>

\* useLiveTrains, lines 42-55: the effect runs; the first refresh starts at once
LiveTrainsEffect(b, routes) ==
    /\ ~liveTrains.isMounted
    /\ LiveTrainsRefreshStarts(b, [liveTrains EXCEPT !.isMounted = TRUE,
                                                     !.interval = now + REFRESH_MS,
                                                     !.routes = routes])

\* useLiveTrains, lines 45-48 and 52-54: the interval fires
LiveTrainsInterval(b) ==
    /\ liveTrains.isMounted
    /\ liveTrains.interval # -1
    /\ now >= liveTrains.interval
    /\ LiveTrainsRefreshStarts(b, [liveTrains EXCEPT !.interval = @ + REFRESH_MS])

\* useLiveTrains, lines 56-59: the effect's cleanup
LiveTrainsCleanup ==
    /\ liveTrains.isMounted
    /\ liveTrains' = [liveTrains EXCEPT !.isMounted = FALSE, !.interval = -1]
    /\ returned' = NoReturn
    /\ UNCHANGED <<now, aborted, cache, batch, fetchOptions, lastMode, svc, refreshDue, subwayEntrances, trainStore, arrivalStore, stationArrivals>>

\* The fetchVehicles call a refresh awaits runs to its end: its promise is
\* settled and the continuation of refresh is queued
LiveTrainsFetched(b) ==
    /\ liveTrains.refresh[b].pc = "awaiting"
    /\ fetchVehiclesResume(b)
    /\ liveTrains' = [liveTrains EXCEPT !.refresh[b] = SettledRefresh(@, returned')]
    /\ UNCHANGED <<trainStore, arrivalStore, stationArrivals>>

\* useLiveTrains, lines 32-39: refresh, from its await on
LiveTrainsRefreshResumes(b) ==
    LET call == liveTrains.refresh[b]
    IN  /\ call.pc = "settled"
        /\ trainStore' =
              setLoading(IF call.outcome = "resolved"
                         THEN setTrains(trainStore, call.value, mode, now)
                         ELSE setError(trainStore, ErrorMessage),
                         FALSE)
        /\ liveTrains' = [liveTrains EXCEPT
              !.refresh[b] = NoRefresh,
              !.stored = IF call.outcome = "resolved"
                         THEN [seq |-> call.seq, fallback |-> call.fallback] ELSE @]
        /\ returned' = NoReturn
        /\ UNCHANGED <<now, aborted, cache, batch, fetchOptions, lastMode, svc, refreshDue, subwayEntrances, arrivalStore, stationArrivals>>

NextLiveTrains ==
    \/ \E b \in Batches, routes \in RoutesArgs : LiveTrainsEffect(b, routes)
    \/ \E b \in Batches : LiveTrainsInterval(b)
    \/ LiveTrainsCleanup
    \/ \E b \in Batches : LiveTrainsFetched(b)
    \/ \E b \in Batches : LiveTrainsRefreshResumes(b)
    \/ ClockAdvances

SpecLiveTrains == InitHooks /\ [][NextLiveTrains]_vars

\* useStationArrivals, lines 29-36: refresh, up to its await
StationArrivalsRefreshStarts(b, hook) ==
    /\ NotAHookCall(b)
    /\ stationArrivals.started < MaxRefreshes
    /\ hook.stationId # Null
    /\ arrivalStore' = setError(setLoading(arrivalStore, TRUE), Null)
    /\ fetchArrivalsStart(b, hook.stationId)
    /\ stationArrivals' = [hook EXCEPT !.started = @ + 1,
                                       !.refresh[b] = [NoRefresh EXCEPT !.pc = "awaiting",
                                                                        !.seq = hook.started + 1,
                                                                        !.id = hook.stationId]]
    /\ UNCHANGED <<trainStore, liveTrains>>

\* useStationArrivals, lines 49-63: the effect runs for a station
StationArrivalsEffect(b, stationId) ==
    /\ ~stationArrivals.isMounted
    /\ StationArrivalsRefreshStarts(b, [stationArrivals EXCEPT
            !.isMounted = TRUE, !.interval = now + STATION_REFRESH_MS,
            !.stationId = stationId, !.cleaned = @ \ {stationId}])

\* useStationArrivals, lines 54-57 and 61-63: the interval fires
StationArrivalsInterval(b) ==
    /\ stationArrivals.isMounted
    /\ stationArrivals.interval # -1
    /\ now >= stationArrivals.interval
    /\ StationArrivalsRefreshStarts(b, [stationArrivals EXCEPT !.interval = @ + STATION_REFRESH_MS])

\* useStationArrivals, lines 65-69: the effect's cleanup
StationArrivalsCleanup ==
    /\ stationArrivals.isMounted
    /\ stationArrivals' = [stationArrivals EXCEPT
            !.isMounted = FALSE, !.interval = -1, !.stationId = Null,
            !.cleaned = @ \cup {stationArrivals.stationId}]
    /\ arrivalStore' = clearStation(arrivalStore, stationArrivals.stationId)
    /\ returned' = NoReturn
    /\ UNCHANGED <<now, aborted, cache, batch, fetchOptions, lastMode, svc, refreshDue, subwayEntrances, trainStore, liveTrains>>

\* The fetchArrivals call a refresh awaits runs to its end
StationArrivalsFetched(b) ==
    /\ stationArrivals.refresh[b].pc = "awaiting"
    /\ fetchArrivalsResume(b)
    /\ stationArrivals' = [stationArrivals EXCEPT !.refresh[b] = SettledRefresh(@, returned')]
    /\ UNCHANGED <<trainStore, arrivalStore, liveTrains>>

\* useStationArrivals, lines 37-46: refresh, from its await on
StationArrivalsRefreshResumes(b) ==
    LET call == stationArrivals.refresh[b]
    IN  /\ call.pc = "settled"
        /\ arrivalStore' =
              setLoading(IF call.outcome = "resolved"
                         THEN setArrivals(arrivalStore, call.id, call.value, now)
                         ELSE setError(arrivalStore, ErrorMessage),
                         FALSE)
        /\ stationArrivals' = [stationArrivals EXCEPT !.refresh[b] = NoRefresh]
        /\ returned' = NoReturn
        /\ UNCHANGED <<now, aborted, cache, batch, fetchOptions, lastMode, svc, refreshDue, subwayEntrances, trainStore, liveTrains>>

NextStationArrivals ==
    \/ \E b \in Batches, stationId \in StationArgs : StationArrivalsEffect(b, stationId)
    \/ \E b \in Batches : StationArrivalsInterval(b)
    \/ StationArrivalsCleanup
    \/ \E b \in Batches : StationArrivalsFetched(b)
    \/ \E b \in Batches : StationArrivalsRefreshResumes(b)
    \/ ClockAdvances

SpecStationArrivals == InitHooks /\ [][NextStationArrivals]_vars

\* ------------------------------------------------------- fetcher properties

CallIds == {<<b, i>> \in Batches \X (1..Len(ALL_FEEDS)) :
                batch[b].state = "running" /\ i <= Len(batch[b].calls)}

\* C1: a batch fetch always resolves, and every requested endpoint is in exactly
\* one of results (with the message its own fetch fulfilled with) and errors (with
\* the reason its own fetch rejected with), whatever its siblings did.
C1_BatchPartitionsEndpoints ==
    returned.op = "fetchFeeds" =>
        /\ returned.outcome = "resolved"
        /\ \A i \in 1..Len(returned.feedIds) :
              LET f == returned.feedIds[i]
                  c == returned.calls[i]
                  inResults == \E k \in 1..Len(returned.results) : returned.results[k].key = f
                  inErrors == \E k \in 1..Len(returned.errors) : returned.errors[k].key = f
              IN  /\ inResults = (c.pc = "fulfilled")
                  /\ inErrors = (c.pc = "rejected")
                  /\ inResults # inErrors
                  /\ inResults =>
                        \E k \in 1..Len(returned.results) :
                            returned.results[k] = [key |-> f, value |-> c.value]
                  /\ inErrors =>
                        \E k \in 1..Len(returned.errors) :
                            returned.errors[k] = [key |-> f, value |-> c.reason]
        /\ Len(returned.results) + Len(returned.errors) = Len(returned.feedIds)

\* A batch of two endpoints resolved with one success and one failure
C1_Witness ==
    /\ returned.op = "fetchFeeds"
    /\ Len(returned.feedIds) = 2
    /\ Len(returned.results) = 1
    /\ Len(returned.errors) = 1

\* C2: a fetch goes to the network if and only if it is not the case that
\* cacheTtlMs > 0 and the cache holds an entry younger than cacheTtlMs; a fetch
\* served from the cache fulfils with the cached message unchanged.
C2_NetworkIffNotFresh ==
    [][\A b \in Batches :
          (batch[b].state = "idle" /\ batch'[b].state = "running") =>
              \A i \in 1..Len(batch'[b].feedIds) :
                  LET f == batch'[b].feedIds[i]
                      ttl == batch'[b].opts.cacheTtlMs
                      c == batch'[b].calls[i]
                      fresh == /\ ttl > 0
                               /\ cache[f].fetchedAt >= 0
                               /\ now - cache[f].fetchedAt < ttl
                  IN  /\ fresh => (c.netCalls = 0 /\ c.pc = "fulfilled"
                                     /\ c.value = cache[f].message)
                      /\ ~fresh => (c.netCalls = 1 /\ c.pc = "net")]_vars

\* A fetch was served from an entry stored one tick earlier, without a network call
C2_Witness ==
    \E <<b, i>> \in CallIds :
        LET c == batch[b].calls[i]
            f == batch[b].feedIds[i]
        IN  /\ c.pc = "fulfilled" /\ c.netCalls = 0
            /\ c.value = cache[f].message
            /\ now - cache[f].fetchedAt = TickMs

\* C3: once the caller's signal is aborted the fetcher starts no further network
\* attempt for a fetch call, and no time passes with the call still waiting in
\* the retry backoff.
C3_AbortedFetchNeverRetried ==
    [][\A <<b, i>> \in CallIds :
          (batch[b].opts.useSignal /\ aborted /\ batch'[b].state = "running") =>
              /\ batch'[b].calls[i].netCalls = batch[b].calls[i].netCalls
              /\ ~(batch[b].calls[i].pc = "backoff" /\ now' > now)]_vars

\* C4: a fetch call that rejects while the caller's signal is aborted rejects
\* with the cancellation error.
C4_AbortSurfacesCancellation ==
    [][\A <<b, i>> \in CallIds :
          ( /\ batch[b].opts.useSignal /\ aborted /\ ~batch[b].opts.noRetry
            /\ batch'[b].state = "running"
            /\ batch[b].calls[i].pc # "rejected"
            /\ batch'[b].calls[i].pc = "rejected" ) =>
              batch'[b].calls[i].reason = "abort"]_vars

\* C5: a fetch call makes at most MAX_RETRIES + 1 = 2 attempts, and exactly one
\* when noRetry is set; the retry starts only from the backoff that follows a
\* failed first attempt whose failure was not a cancellation, and no sooner than
\* RETRY_DELAY_MS x 1 after that failure; the call fulfils with the message of
\* the attempt that succeeded and rejects, with the error of the attempt that
\* just failed, only when no attempt is left.
C5_RetryPolicy ==
    [][\A <<b, i>> \in CallIds :
          batch'[b].state = "running" =>
              LET c == batch[b].calls[i]
                  d == batch'[b].calls[i]
                  o == batch[b].opts
                  cancelling == o.useSignal /\ aborted
              IN  /\ d.netCalls <= MAX_RETRIES + 1
                  /\ o.noRetry => d.netCalls = c.netCalls /\ d.netCalls <= 1
                  /\ d.netCalls # c.netCalls =>
                        /\ c.pc = "backoff" /\ d.pc = "net"
                        /\ c.netCalls = 1 /\ d.netCalls = 2
                        /\ now - c.failedAt >= RETRY_DELAY_MS * c.netCalls
                  /\ (c.pc = "net" /\ d.pc = "backoff") =>
                        (~cancelling /\ ~o.noRetry /\ c.netCalls = 1 /\ d.failedAt = now)
                  /\ (c.pc # "fulfilled" /\ d.pc = "fulfilled") =>
                        (c.pc = "net" /\ d.value = [feed |-> batch[b].feedIds[i], ts |-> c.issuedAt])
                  /\ (c.pc # "rejected" /\ d.pc = "rejected") =>
                        /\ c.pc = "net"
                        /\ d.reason \in {"transport", "decode", "abort"}
                        /\ (~cancelling /\ ~o.noRetry) => c.netCalls = 2]_vars

\* A fetch call succeeded on its retry
C5_Witness ==
    \E <<b, i>> \in CallIds :
        batch[b].calls[i].pc = "fulfilled" /\ batch[b].calls[i].netCalls = 2

\* C6: a fetch changes the cache only when it succeeds, and then only the slot of
\* its own endpoint, which receives the returned message stamped with the time of
\* completion; a fetch that fails or is cancelled leaves the whole cache as it was.
C6_CacheWrittenOnlyOnSuccess ==
    [][/\ \A f \in FeedId :
            cache'[f] # cache[f] =>
                \/ cache'[f].fetchedAt = -1      \* clearFeedCache / invalidateFeed
                \/ \E <<b, i>> \in CallIds :
                      /\ batch[b].feedIds[i] = f
                      /\ batch[b].calls[i].pc = "net"
                      /\ batch'[b].calls[i].pc = "fulfilled"
                      /\ cache'[f] = [message |-> batch'[b].calls[i].value, fetchedAt |-> now]
       /\ \A <<b, i>> \in CallIds :
            batch'[b].state = "running" =>
                /\ ( /\ batch[b].calls[i].pc = "net"
                     /\ batch'[b].calls[i].pc \in {"rejected", "backoff"} ) => cache' = cache
                /\ ( /\ batch[b].calls[i].pc = "net"
                     /\ batch'[b].calls[i].pc = "fulfilled" ) =>
                        /\ cache'[batch[b].feedIds[i]] =
                              [message |-> batch'[b].calls[i].value, fetchedAt |-> now]
                        /\ \A g \in FeedId \ {batch[b].feedIds[i]} : cache'[g] = cache[g]]_vars

\* One endpoint of a batch was fetched two ticks after the request and stored, its
\* sibling failed and has no entry
C6_Witness ==
    \E b \in Batches :
        /\ batch[b].state = "running" /\ Len(batch[b].calls) = 2
        /\ batch[b].calls[1].pc = "fulfilled" /\ batch[b].calls[1].netCalls >= 1
        /\ cache[batch[b].feedIds[1]] =
              [message |-> batch[b].calls[1].value, fetchedAt |-> now]
        /\ now > batch[b].calls[1].value.ts
        /\ batch[b].calls[2].pc = "rejected"
        /\ cache[batch[b].feedIds[2]].fetchedAt = -1

\* ------------------------------------------------------- service properties

ServiceOps == {"fetchVehicles", "fetchArrivals", "fetchAlerts", "fetchAll"}

\* A service method has just resolved or rejected its caller's promise
ServiceReturned == returned.op \in ServiceOps

\* Every endpoint the call requested was rejected
EveryEndpointFailed ==
    \A i \in 1..Len(returned.settled) : returned.settled[i].status = "rejected"

SeedIds == {SEED_TRAINS[i].id : i \in 1..Len(SEED_TRAINS)}

\* The vehicles of the list or snapshot just returned
ReturnedVehicles ==
    IF returned.op = "fetchAll" THEN returned.value.vehicles ELSE returned.value

\* C7: when every requested endpoint failed, fetchVehicles returns a non-empty
\* list of vehicles whose ids all come from the mock seed set and the mode is
\* 'mock'; fetchAll returns such a mock list with empty arrivals and empty alerts;
\* fetchArrivals and fetchAlerts return empty lists.
C7_TotalFailureFallsBack ==
    (ServiceReturned /\ returned.outcome = "resolved" /\ EveryEndpointFailed) =>
        /\ returned.op = "fetchVehicles" =>
              /\ Len(returned.value) > 0
              /\ \A i \in 1..Len(returned.value) : returned.value[i].id \in SeedIds
              /\ mode = "mock"
        /\ returned.op = "fetchAll" =>
              /\ Len(returned.value.vehicles) > 0
              /\ \A i \in 1..Len(returned.value.vehicles) :
                    returned.value.vehicles[i].id \in SeedIds
              /\ returned.value.arrivals = <<>>
              /\ returned.value.alerts = <<>>
        /\ returned.op \in {"fetchArrivals", "fetchAlerts"} => returned.value = <<>>

\* fetchVehicles for two routes found both of their endpoints down and returned
\* the six mock trains, although the cache still holds a feed an earlier call
\* had stored
C7_Witness ==
    /\ returned.op = "fetchVehicles"
    /\ returned.routes.present
    /\ Len(returned.settled) = 2
    /\ EveryEndpointFailed
    /\ Len(returned.value) = Len(SEED_TRAINS)
    /\ lastMode = "mock"
    /\ \E f \in FeedId : cache[f] # NoEntry

\* C8: after any completed call of fetchVehicles, fetchArrivals, fetchAlerts or
\* fetchAll, mode is 'mock' if every endpoint the call requested failed and 'live'
\* if at least one of them succeeded.
C8_ModeReflectsMostRecentFetch ==
    (ServiceReturned /\ returned.outcome = "resolved") =>
        mode = IF EveryEndpointFailed THEN "mock" ELSE "live"

\* C9: fetchVehicles, fetchArrivals, fetchAlerts and fetchAll resolve, whatever
\* the outcome of each endpoint (success, transport error, decode error,
\* cancellation) and whatever the feeds contain.
C9_ServiceNeverRejects ==
    ServiceReturned => returned.outcome = "resolved"

\* A call over all endpoints resolved although its batch held a success, a
\* transport error, a decode error and a cancellation, and the feed that arrived
\* held malformed entities
C9_Witness ==
    /\ ServiceReturned
    /\ returned.outcome = "resolved"
    /\ \E i \in 1..Len(returned.settled) :
          /\ returned.settled[i].status = "fulfilled"
          /\ \E k \in 1..Len(Decode(returned.settled[i].message).entity) :
                Decode(returned.settled[i].message).entity[k] \in {VehicleNoRoute, VehicleNowhere}
    /\ \A kind \in {"transport", "decode", "abort"} :
          \E i \in 1..Len(returned.settled) :
              returned.settled[i].status = "rejected" /\ returned.settled[i].reason = kind

\* The messages of the fulfilled calls, in the order the endpoints were requested
RECURSIVE MessagesInRequestOrder(_)
MessagesInRequestOrder(settled) ==
    IF settled = <<>> THEN <<>>
    ELSE (IF Head(settled).status = "fulfilled" THEN <<Head(settled).message>> ELSE <<>>)
            \o MessagesInRequestOrder(Tail(settled))

\* The vehicles mapped from the feeds of the call just returned, in merge order:
\* endpoints in request order, then entities in feed order
MergeOrder ==
    IF returned.op = "fetchAll"
    THEN mapVehiclePositions(
            [entity |-> CollectEntities(MessagesInRequestOrder(returned.settled))], now)
    ELSE MapEachMessage(MessagesInRequestOrder(returned.settled), now)

\* C10: the vehicle ids of every list fetchVehicles returns and of every snapshot
\* fetchAll returns (live or mock) are pairwise distinct, and a returned live
\* vehicle is the last one of its id in merge order.
C10_VehicleIdsUniqueLastWins ==
    (returned.op \in {"fetchVehicles", "fetchAll"} /\ returned.outcome = "resolved") =>
        /\ \A i, j \in 1..Len(ReturnedVehicles) :
              i # j => ReturnedVehicles[i].id # ReturnedVehicles[j].id
        /\ ~EveryEndpointFailed =>
              \A i \in 1..Len(ReturnedVehicles) :
                  \E k \in 1..Len(MergeOrder) :
                      /\ MergeOrder[k] = ReturnedVehicles[i]
                      /\ \A j \in (k + 1)..Len(MergeOrder) :
                            MergeOrder[j].id # ReturnedVehicles[i].id

\* Two endpoints each served a vehicle under the same id; the list returned holds
\* the one of the endpoint requested later and not the other
C10_Witness ==
    /\ returned.op = "fetchVehicles"
    /\ returned.outcome = "resolved"
    /\ \E k, j \in 1..Len(MergeOrder) :
          /\ k < j
          /\ MergeOrder[k].id = MergeOrder[j].id
          /\ MergeOrder[k].routeId # MergeOrder[j].routeId
          /\ \A l \in (j + 1)..Len(MergeOrder) : MergeOrder[l].id # MergeOrder[j].id
          /\ \E i \in 1..Len(returned.value) : returned.value[i] = MergeOrder[j]
          /\ \A i \in 1..Len(returned.value) : returned.value[i] # MergeOrder[k]
    /\ Cardinality({returned.settled[i].feedId : i \in
            {n \in 1..Len(returned.settled) : returned.settled[n].status = "fulfilled"}}) = 2

\* C11: when fetchVehicles or fetchAll is called with a non-empty line filter,
\* every vehicle it returns has a line id in the upper-cased set of the requested
\* lines, whatever the outcomes of the endpoints were.
C11_LineFilterFinalPass ==
    ( /\ returned.op \in {"fetchVehicles", "fetchAll"}
      /\ returned.outcome = "resolved"
      /\ returned.routes.present
      /\ Len(returned.routes.list) > 0 ) =>
        \A i \in 1..Len(ReturnedVehicles) :
            ReturnedVehicles[i].routeId \in
                {toUpperCase(r) : r \in Range(returned.routes.list)}

\* C12: fetchVehicles requests the minimal covering set of the supplied lines
\* (every endpoint when no line is supplied); fetchArrivals, fetchAlerts and
\* fetchAll request every endpoint, whatever the line filter.
C12_EndpointSetSelection ==
    \A b \in Batches :
        /\ svc[b].op = "fetchVehicles" =>
              IF svc[b].routes.present /\ Len(svc[b].routes.list) > 0
              THEN /\ Range(batch[b].feedIds) =
                          {getFeedForRoute(r) : r \in Range(svc[b].routes.list)}
                   /\ Len(batch[b].feedIds) = Cardinality(Range(batch[b].feedIds))
              ELSE batch[b].feedIds = ALL_FEEDS
        /\ svc[b].op \in {"fetchArrivals", "fetchAlerts", "fetchAll"} =>
              batch[b].feedIds = ALL_FEEDS

\* -------------------------------------------------- function properties

\* C13: getFeedsForRoutes returns every endpoint for an undefined or empty
\* argument, and otherwise a duplicate-free list of exactly the endpoints of the
\* upper-cased requested lines, a line the table does not know counting for the
\* Default endpoint.
C13_ResolveEndpoints ==
    returned.op = "getFeedsForRoutes" =>
        LET EndpointOf(key) ==
                IF \E i \in 1..Len(ROUTE_TO_FEED) : ROUTE_TO_FEED[i].route = key
                THEN ROUTE_TO_FEED[CHOOSE i \in 1..Len(ROUTE_TO_FEED) :
                                        ROUTE_TO_FEED[i].route = key].feed
                ELSE "Default"
            lines == returned.routes.list
        IN  IF ~returned.routes.present \/ lines = <<>>
            THEN returned.value = ALL_FEEDS
            ELSE /\ Range(returned.value) =
                        {EndpointOf(toUpperCase(lines[i])) : i \in 1..Len(lines)}
                 /\ \A i, j \in 1..Len(returned.value) :
                        i # j => returned.value[i] # returned.value[j]

\* Lines a, C and an unknown line resolve to two endpoints: the one a and C
\* share, and Default
C13_Witness ==
    /\ returned.op = "getFeedsForRoutes"
    /\ returned.routes = Routes(<< <<"a">>, <<"C">>, <<"X">> >>)
    /\ returned.value = <<"ACE", "Default">>

\* C14: the direction of every vehicle fetchVehicles or fetchAll returns is the
\* quadrant of its bearing: N for [315,360) and [0,45), E for [45,135), S for
\* [135,225), W for [225,315).
C14_DirectionIsQuadrantOfBearing ==
    (returned.op \in {"fetchVehicles", "fetchAll"} /\ returned.outcome = "resolved") =>
        \A i \in 1..Len(ReturnedVehicles) :
            LET v == ReturnedVehicles[i]
            IN  /\ (v.bearing >= 315 * BearingUnit \/ v.bearing < 45 * BearingUnit)
                        => v.direction = "N"
                /\ (v.bearing >= 45 * BearingUnit /\ v.bearing < 135 * BearingUnit)
                        => v.direction = "E"
                /\ (v.bearing >= 135 * BearingUnit /\ v.bearing < 225 * BearingUnit)
                        => v.direction = "S"
                /\ (v.bearing >= 225 * BearingUnit /\ v.bearing < 315 * BearingUnit)
                        => v.direction = "W"

\* C15: every vehicle fetchVehicles or fetchAll returns carries a bearing of at
\* least 0 and less than 360 degrees.
C15_BearingInRange ==
    (returned.op \in {"fetchVehicles", "fetchAll"} /\ returned.outcome = "resolved") =>
        \A i \in 1..Len(ReturnedVehicles) :
            /\ ReturnedVehicles[i].bearing >= 0
            /\ ReturnedVehicles[i].bearing < 360 * BearingUnit

\* A snapshot holds a vehicle whose bearing was computed towards its next stop
\* and a vehicle with the bearing of the UNK fallback
C15_Witness ==
    /\ returned.op = "fetchAll"
    /\ returned.outcome = "resolved"
    /\ \E i \in 1..Len(returned.value.vehicles) :
          LET v == returned.value.vehicles[i]
          IN  NextCoords(IndexTripUpdates(
                            CollectEntities(MessagesInRequestOrder(returned.settled)), <<>>),
                         v.tripId, v.currentStopId).found
    /\ \E i \in 1..Len(returned.value.vehicles) :
          /\ returned.value.vehicles[i].direction = "UNK"
          /\ returned.value.vehicles[i].bearing = 0

\* C16: for every whole-degree bearing in [0,360), cardinalFromBearing (of the
\* vehicle mapper and of the legacy train mapper) returns one of N, E, S, W, and
\* applied to the canonical bearing of its result (N 0, E 90, S 180, W 270) it
\* returns that result again.
C16_CardinalTotalAndIdempotent ==
    returned.op = "cardinalFromBearing" =>
        LET Canonical(d) == IF d = "N" THEN 0
                            ELSE IF d = "E" THEN 90 * BearingUnit
                            ELSE IF d = "S" THEN 180 * BearingUnit
                            ELSE 270 * BearingUnit
        IN  /\ returned.value \in {"N", "E", "S", "W"}
            /\ returned.legacy \in {"N", "E", "S", "W"}
            /\ cardinalFromBearing(Canonical(returned.value)) = returned.value
            /\ trainMapper_cardinalFromBearing(Canonical(returned.legacy)) = returned.legacy

\* The last degree of the western sector, one short of the northern one
C16_Witness ==
    /\ returned.op = "cardinalFromBearing"
    /\ returned.bearing = 314 * BearingUnit
    /\ returned.value = "W"
    /\ returned.legacy = "W"

\* C17: mapTripUpdates emits, in feed order, exactly one prediction for every
\* stop time update that belongs to a trip update with a line id, has a stop id,
\* and whose effective time (the arrival time if present and non-zero, otherwise
\* the departure time) is non-zero and not before now; the prediction's arrival
\* time is that effective time, and nothing else is emitted.
C17_OnePredictionPerFutureStopTime ==
    returned.op = "mapTripUpdates" =>
        LET entities == returned.feed.entity
            nowSec == now \div 1000
            TimeOf(event) ==
                IF event = NoEvent THEN 0
                ELSE IF event.time.kind = "null" THEN 0 ELSE event.time.n
            Effective(st) ==
                IF TimeOf(st.arrival) # 0 THEN TimeOf(st.arrival) ELSE TimeOf(st.departure)
            Qualifies(k, j) ==
                LET st == entities[k].tripUpdate.stopTimeUpdate[j]
                IN  /\ st.stopId # Null /\ st.stopId # <<>>
                    /\ Effective(st) # 0
                    /\ Effective(st) >= nowSec
            Pairs == {<<k, j>> \in (1..Len(entities)) \X (1..(MaxStopTimes + 3)) :
                        /\ entities[k].tripUpdate # NoTripUpdate
                        /\ entities[k].tripUpdate.routeId # Null
                        /\ entities[k].tripUpdate.routeId # <<>>
                        /\ j <= Len(entities[k].tripUpdate.stopTimeUpdate)
                        /\ Qualifies(k, j)}
            Rank(p) == Cardinality({q \in Pairs :
                            q[1] < p[1] \/ (q[1] = p[1] /\ q[2] <= p[2])})
        IN  /\ Len(returned.value) = Cardinality(Pairs)
            /\ \A p \in Pairs :
                  LET st == entities[p[1]].tripUpdate.stopTimeUpdate[p[2]]
                      out == returned.value[Rank(p)]
                  IN  /\ out.stopId = st.stopId
                      /\ out.arrivalTime = Effective(st)
                      /\ out.routeId = toUpperCase(entities[p[1]].tripUpdate.routeId)
            /\ \A i \in 1..Len(returned.value) : returned.value[i].arrivalTime >= nowSec

\* At 5 s a trip update with a stop time due at 5 s by its departure alone and a
\* stop time whose arrival was at 4 s: the first is emitted, the second is not
C17_Witness ==
    /\ returned.op = "mapTripUpdates"
    /\ now \div 1000 = 5
    /\ returned.feed.entity[2].tripUpdate.routeId = <<"a">>
    /\ returned.feed.entity[2].tripUpdate.stopTimeUpdate =
          << StopTime(A16N, NoEvent, Event(LongV(5), NoNumber)),
             StopTime(A15N, Event(NumberV(4), NoNumber), Event(NumberV(9), NoNumber)) >>
    /\ Len(returned.value) = 3
    /\ returned.value[1].stopId = A16N
    /\ returned.value[1].arrivalTime = 5
    /\ returned.value[1].routeId = <<"A">>

\* C18: filterArrivalsForStation returns exactly the predictions whose stop id,
\* one trailing N or S removed, equals the station id with one trailing N or S
\* removed, each as often as the input holds it, in ascending order of arrival
\* time, and leaves the list it was given as it was; the list fetchArrivals
\* resolves with is in ascending order of arrival time.
C18_StationFilterSorted ==
    LET Base(id) == IF id # <<>> /\ id[Len(id)] \in {"N", "S"}
                    THEN SubSeq(id, 1, Len(id) - 1) ELSE id
        Count(seq, p) == Cardinality({i \in 1..Len(seq) : seq[i] = p})
        Ascending(seq) == \A i \in 1..Len(seq), j \in 1..Len(seq) :
                              i < j => seq[i].arrivalTime <= seq[j].arrivalTime
    IN  /\ returned.op = "filterArrivalsForStation" =>
              /\ \A p \in Range(returned.before) \cup Range(returned.value) :
                    Count(returned.value, p) =
                        IF Base(p.stopId) = Base(returned.stationStopId)
                        THEN Count(returned.before, p) ELSE 0
              /\ Ascending(returned.value)
              /\ returned.predictions = returned.before
        /\ returned.op = "fetchArrivals" => Ascending(returned.value)

\* Asked for A15S, a list with a later A15N arrival ahead of an earlier A15
\* arrival, and an A15NN stop between them: the two come back in time order
C18_Witness ==
    /\ returned.op = "filterArrivalsForStation"
    /\ returned.stationStopId = <<"A", "1", "5", "S">>
    /\ Len(returned.before) = 3
    /\ returned.before[1].stopId = A15N /\ returned.before[1].arrivalTime = 7
    /\ returned.before[2].stopId = <<"A", "1", "5", "N", "N">>
    /\ returned.before[3].stopId = <<"A", "1", "5">> /\ returned.before[3].arrivalTime = 5
    /\ returned.value = <<returned.before[3], returned.before[1]>>

\* C19: mapAlerts emits, in feed order, one alert for every alert entity whose
\* header or description is non-empty once the translation is extracted, and
\* none for any other entity; no alert with both texts empty is in the result
\* of mapAlerts, of fetchAlerts, or in the alerts of a snapshot.
C19_AlertsCarryText ==
    LET Informative(alerts) ==
            \A i \in 1..Len(alerts) :
                alerts[i].header # <<>> \/ alerts[i].description # <<>>
    IN  /\ returned.op = "mapAlerts" =>
              LET entities == returned.feed.entity
                  Kept == {k \in 1..Len(entities) :
                              /\ entities[k].alert # NoAlert
                              /\ \/ extractTranslatedText(entities[k].alert.headerText) # <<>>
                                 \/ extractTranslatedText(entities[k].alert.descriptionText) # <<>>}
                  Rank(k) == Cardinality({j \in Kept : j <= k})
              IN  /\ Len(returned.value) = Cardinality(Kept)
                  /\ \A k \in Kept :
                        /\ returned.value[Rank(k)].header =
                              extractTranslatedText(entities[k].alert.headerText)
                        /\ returned.value[Rank(k)].description =
                              extractTranslatedText(entities[k].alert.descriptionText)
                  /\ Informative(returned.value)
        /\ returned.op = "fetchAlerts" => Informative(returned.value)
        /\ returned.op = "fetchAll" => Informative(returned.value.alerts)

\* An alert whose header has translations without text and whose description
\* has an empty English text, ahead of an alert with a description only: the
\* first is skipped, the second is emitted
C19_Witness ==
    /\ returned.op = "mapAlerts"
    /\ Len(returned.feed.entity) = 2
    /\ returned.feed.entity[1].alert # NoAlert
    /\ returned.feed.entity[1].alert.headerText = Text(<< Translation(Null, Null) >>)
    /\ returned.feed.entity[1].alert.descriptionText =
          Text(<< Translation(<<"e", "s">>, <<"h", "o", "l", "a">>),
                  Translation(<<"e", "n">>, <<>>) >>)
    /\ returned.feed.entity[2].alert # NoAlert
    /\ returned.feed.entity[2].alert.headerText = NoText
    /\ Len(returned.value) = 1
    /\ returned.value[1].header = <<>>
    /\ returned.value[1].description = <<"o", "k">>

\* ------------------------------------------------- cache control properties

\* C20: after invalidateFeed(endpoint) or clearFeedCache(), the next fetchFeed
\* of that endpoint, whatever its cacheTtlMs, issues a network request and does
\* not return a cached entry, also when fetches were in flight at the moment
\* the cache was cleared.
C20_ClearForcesRefresh ==
    [][\A b \in Batches :
          (batch[b].state = "idle" /\ batch'[b].state = "running") =>
              \A i \in 1..Len(batch'[b].feedIds) :
                  refreshDue[batch'[b].feedIds[i]] => batch'[b].calls[i].pc = "net"]_vars

\* ------------------------------------------------------ entrance properties

\* C21: however many components call ensureEntrancesLoaded and however the
\* calls interleave with the download, at most one request for the entrance
\* data is ever issued, also when it fails; no call's promise rejects; while a
\* call stands resolved isEntranceDataReady is true and it never turns false
\* again; and every call that awaits the download resolves.
C21_EntranceDownloadOnce ==
    /\ [](/\ subwayEntrances.requests <= 1
          /\ \A c \in EntranceCallers : subwayEntrances.calls[c] # "rejected"
          /\ (\E c \in EntranceCallers : subwayEntrances.calls[c] = "resolved")
                => isEntranceDataReady)
    /\ [][isEntranceDataReady => isEntranceDataReady']_vars
    /\ \A c \in EntranceCallers :
          (subwayEntrances.calls[c] = "awaiting") ~> (subwayEntrances.calls[c] = "resolved")

\* The download has failed while components were awaiting it; one component
\* has called a second time and stands resolved, the others are about to
\* resume: still one request
C21_Witness ==
    /\ subwayEntrances.requests = 1
    /\ subwayEntrances.load = "caught"
    /\ subwayEntrances.complexEntrances = MapOf(<<>>)
    /\ \E c \in EntranceCallers :
          /\ subwayEntrances.calls[c] = "resolved"
          /\ subwayEntrances.called[c] = 2
          /\ \A other \in EntranceCallers \ {c} : subwayEntrances.calls[other] = "awaiting"

\* --------------------------------------------------- merged mapping properties

\* C22: when at least one endpoint succeeded, the vehicles fetchVehicles returns
\* are those obtained by merging the entities of the succeeded endpoints'
\* messages, in endpoint order, into one stream, mapping that stream, removing
\* duplicates and applying the line filter: the list fetchAll returns for the
\* same messages and filter, bearings and directions included.
C22_VehiclesMappedFromMergedStream ==
    (returned.op = "fetchVehicles" /\ returned.outcome = "resolved"
        /\ Len(returned.results) > 0)
    => returned.value =
          FilterByRoutes(
              deduplicateVehicles(mapVehiclePositions(collectMessages(returned.results), now)),
              returned.routes)

\* --------------------------------------------------- text extraction properties

\* C23: the text extracted from a translated string is the text of the
\* translation tagged "en" if the list holds one, wherever it stands; otherwise
\* the text of the first translation; otherwise, without translations, the
\* empty string.
C23_EnglishTaggedTranslationWins ==
    returned.op = "extractTranslatedText" =>
        LET list == IF returned.translated = NoText THEN <<>>
                    ELSE returned.translated.translation
            English == {i \in 1..Len(list) : list[i].language = <<"e", "n">>}
            TextOf(t) == IF t.text = Null THEN <<>> ELSE t.text
            expected ==
                IF English # {}
                THEN TextOf(list[CHOOSE i \in English : \A j \in English : i <= j])
                ELSE IF Len(list) > 0 THEN TextOf(list[1])
                ELSE <<>>
        IN  returned.value = Text(expected)

\* --------------------------------------------------- vehicle mapper properties

\* The entities of a feed that mapVehicles is to emit a record for: vehicles
\* with a line id, a stop id, and coordinates for the stop id or for the stop
\* id less one trailing N or S
EmittedEntities(entities) ==
    {k \in 1..Len(entities) :
        /\ entities[k].vehicle # NoVehicle
        /\ entities[k].vehicle.routeId # Null /\ entities[k].vehicle.routeId # <<>>
        /\ entities[k].vehicle.stopId # Null /\ entities[k].vehicle.stopId # <<>>
        /\ LET stopId == entities[k].vehicle.stopId
               base == IF stopId[Len(stopId)] \in {"N", "S"}
                       THEN SubSeq(stopId, 1, Len(stopId) - 1) ELSE stopId
           IN  \E i \in 1..Len(subwayStations) : subwayStations[i].id \in {stopId, base}}

\* The place in the result of the record for entity k
RecordOf(entities, k) == Cardinality({j \in EmittedEntities(entities) : j <= k})

\* The stop the vehicle of entity k heads for: the stop after the first
\* occurrence of its current stop in the last trip update of its trip id, when
\* there is one; Null otherwise
HeadsFor(entities, k) ==
    LET v == entities[k].vehicle
        Updates == {j \in 1..Len(entities) :
                        /\ entities[j].tripUpdate # NoTripUpdate
                        /\ entities[j].tripUpdate.tripId = v.tripId}
        stops == entities[CHOOSE j \in Updates : \A i \in Updates : i <= j]
                    .tripUpdate.stopTimeUpdate
        At == {i \in 1..Len(stops) : stops[i].stopId = v.stopId}
        first == CHOOSE i \in At : \A j \in At : i <= j
    IN  IF v.tripId = Null \/ v.tripId = <<>> \/ Updates = {} THEN Null
        ELSE IF At = {} THEN Null
        ELSE IF first = Len(stops) THEN Null
        ELSE stops[first + 1].stopId

\* C24: the record of a vehicle carries the geometric bearing from its current
\* stop to the next one, and the quadrant of that bearing as direction, exactly
\* when the last trip update of the feed with the vehicle's trip id lists the
\* current stop id (first occurrence) before its last position and the stop
\* after it resolves to coordinates; in every other case the record carries the
\* direction of the fallback rule and that direction's canonical bearing.
C24_GeometricBearingWhenNextStopKnown ==
    returned.op = "mapVehiclePositions" =>
        LET entities == returned.feed.entity
        IN  \A k \in EmittedEntities(entities) :
                LET v == entities[k].vehicle
                    out == returned.value[RecordOf(entities, k)]
                    next == HeadsFor(entities, k)
                    geometric == next # Null /\ next # <<>> /\ getStopCoords(next).found
                    cur == getStopCoords(v.stopId)
                    to == getStopCoords(next)
                    fallback == fallbackDirection(v.stopId, v.tripId)
                IN  IF geometric
                    THEN /\ out.bearing = computeBearing(cur.lat, cur.lng, to.lat, to.lng)
                         /\ out.direction = cardinalFromBearing(out.bearing)
                    ELSE /\ out.direction = fallback
                         /\ out.bearing = (IF fallback = "S" THEN 180 * BearingUnit ELSE 0)

\* The train of trip T1..N at A15N, with a trip update of T1..N that goes on to
\* A16 ahead of one that goes on to 127: the later one counts, the bearing is
\* the one to 127 and the direction is E although the stop id ends in N
C24_Witness ==
    /\ returned.op = "mapVehiclePositions"
    /\ Len(returned.feed.entity) = 3
    /\ returned.feed.entity[1].tripUpdate # NoTripUpdate
    /\ returned.feed.entity[1].tripUpdate.stopTimeUpdate = CallsAt(<<A15N, A16N>>)
    /\ returned.feed.entity[2] = VehicleA
    /\ returned.feed.entity[3].tripUpdate # NoTripUpdate
    /\ returned.feed.entity[3].tripUpdate.stopTimeUpdate =
          CallsAt(<<A15N, <<"1", "2", "7", "S">> >>)
    /\ Len(returned.value) = 1
    /\ returned.value[1].direction = "E"
    /\ returned.value[1].bearing > 45 * BearingUnit

\* C25: a vehicle for which no geometric bearing can be computed gets the
\* direction N or S of the last character of its stop id when that is N or S,
\* else the N or S of a "..N" / "..S" token in its trip id, else UNK, never E
\* or W; its bearing is 0 for N, 180 for S and 0 for UNK.
C25_FallbackDirection ==
    returned.op = "mapVehiclePositions" =>
        LET entities == returned.feed.entity
        IN  \A k \in EmittedEntities(entities) :
                LET v == entities[k].vehicle
                    out == returned.value[RecordOf(entities, k)]
                    next == HeadsFor(entities, k)
                    geometric == next # Null /\ next # <<>> /\ getStopCoords(next).found
                    last == v.stopId[Len(v.stopId)]
                    trip == IF v.tripId = Null THEN <<>> ELSE v.tripId
                    Tokens == {i \in 1..(Len(trip) - 2) :
                                  trip[i] = "." /\ trip[i + 1] = "." /\ trip[i + 2] \in {"N", "S"}}
                IN  ~geometric =>
                        /\ out.direction \in {"N", "S", "UNK"}
                        /\ last \in {"N", "S"} => out.direction = last
                        /\ (last \notin {"N", "S"} /\ Tokens # {}) =>
                                \E i \in Tokens : out.direction = trip[i + 2]
                        /\ (last \notin {"N", "S"} /\ Tokens = {}) => out.direction = "UNK"
                        /\ out.bearing = (IF out.direction = "S" THEN 180 * BearingUnit ELSE 0)

\* Three trains without trip update: at 127N on trip T4..S (N by the stop id),
\* at A15 on trip T3..S (S by the trip id), at L01 on trip T2_N (UNK)
C25_Witness ==
    /\ returned.op = "mapVehiclePositions"
    /\ Len(returned.feed.entity) = 3
    /\ returned.feed.entity[1].vehicle # NoVehicle
    /\ returned.feed.entity[1].vehicle.stopId = <<"1", "2", "7", "N">>
    /\ returned.feed.entity[1].vehicle.tripId = <<"T", "4", ".", ".", "S">>
    /\ returned.feed.entity[2].vehicle # NoVehicle
    /\ returned.feed.entity[2].vehicle.stopId = <<"A", "1", "5">>
    /\ returned.feed.entity[3] = VehicleL
    /\ Len(returned.value) = 3
    /\ returned.value[1].direction = "N" /\ returned.value[1].bearing = 0
    /\ returned.value[2].direction = "S" /\ returned.value[2].bearing = 180 * BearingUnit
    /\ returned.value[3].direction = "UNK" /\ returned.value[3].bearing = 0

\* C26: mapVehicles emits, in entity order, exactly one record for every
\* vehicle entity with a line id, a current stop id and coordinates found for
\* the stop id or for the stop id less one trailing N or S, and none for any
\* other entity; the record carries the coordinates of that stop, and as id the
\* entity id when there is one, else the trip id (or "unknown") and the stop id
\* joined by a hyphen.
C26_OneRecordPerResolvableVehicle ==
    returned.op = "mapVehiclePositions" =>
        LET entities == returned.feed.entity
            Emitted == EmittedEntities(entities)
        IN  /\ Len(returned.value) = Cardinality(Emitted)
            /\ \A k \in Emitted :
                  LET v == entities[k].vehicle
                      out == returned.value[RecordOf(entities, k)]
                      base == IF v.stopId[Len(v.stopId)] \in {"N", "S"}
                              THEN SubSeq(v.stopId, 1, Len(v.stopId) - 1) ELSE v.stopId
                      Exact == {i \in 1..Len(subwayStations) : subwayStations[i].id = v.stopId}
                      Base == {i \in 1..Len(subwayStations) : subwayStations[i].id = base}
                      station == subwayStations[CHOOSE i \in (IF Exact # {} THEN Exact ELSE Base) : TRUE]
                  IN  /\ out.latitude = station.lat
                      /\ out.longitude = station.lng
                      /\ out.currentStopId = v.stopId
                      /\ out.routeId = toUpperCase(v.routeId)
                      /\ out.id = IF entities[k].id # Null /\ entities[k].id # <<>>
                                  THEN entities[k].id
                                  ELSE (IF v.tripId = Null THEN <<"u", "n", "k", "n", "o", "w", "n">>
                                        ELSE v.tripId) \o <<"-">> \o v.stopId

\* A train without line id, a train at R20N without entity id and trip id, and
\* a train at an unknown stop: one record, at R20, with id unknown-R20N
C26_Witness ==
    /\ returned.op = "mapVehiclePositions"
    /\ Len(returned.feed.entity) = 3
    /\ returned.feed.entity[1] = VehicleNoRoute
    /\ returned.feed.entity[2].vehicle # NoVehicle
    /\ returned.feed.entity[2].vehicle.stopId = <<"R", "2", "0", "N">>
    /\ returned.feed.entity[3] = VehicleNowhere
    /\ Len(returned.value) = 1
    /\ returned.value[1].id = <<"u", "n", "k", "n", "o", "w", "n", "-", "R", "2", "0", "N">>
    /\ returned.value[1].latitude = 40 * CoordUnit
    /\ returned.value[1].longitude = (-75) * CoordUnit

\* --------------------------------------------------- overlapping fetch properties

\* C27: when fetches of one endpoint overlap, the endpoint's cache entry is only
\* ever replaced by the response to a request issued no earlier than the
\* request whose response it replaces.
C27_CacheNeverGoesBack ==
    [][\A f \in FeedId :
          (cache[f] # NoEntry /\ cache'[f] # NoEntry /\ cache'[f] # cache[f])
              => cache'[f].message.ts >= cache[f].message.ts]_vars

\* --------------------------------------------------- polling hook properties

\* C28: when refresh calls of useLiveTrains overlap, setTrains is never called
\* by a refresh that started before the refresh whose result the train store
\* holds, so the store ends up with the result of the refresh started last
C28_LatestRefreshWins ==
    [][liveTrains'.stored.seq >= liveTrains.stored.seq]_vars

\* C29: a station whose cleanup has run has no entry in the arrival store, also
\* after a refresh that was awaiting at the cleanup has resumed, and no refresh
\* starts for it
C29_CleanedStationStaysCleared ==
    /\ [](\A id \in stationArrivals.cleaned : ~MapHas(arrivalStore.arrivals, id))
    /\ [][\A b \in Batches :
              (stationArrivals.refresh[b].pc = "idle"
                    /\ stationArrivals'.refresh[b].pc = "awaiting")
                  => stationArrivals'.refresh[b].id \notin stationArrivals'.cleaned]_vars

====
